---- MODULE Spec2Model ----
(***************************************************************************)
(* Banking-System-Simulator: the account classes (src/accounts/), the      *)
(* operations of src/account_operations.py and the master file of          *)
(* src/database_manager.py, as one state machine.                          *)
(*                                                                         *)
(* Money.  The program computes on Python floats.  The model keeps every   *)
(* money value as an integer number of mills (1/1000 of a rupee): sums and *)
(* differences are exact, a product with a rate is rounded to the nearest  *)
(* mill (ties to even, as IEEE rounds at its own precision), and the       *)
(* "%.2f" formatting of the ledger and of the master file rounds a value   *)
(* in mills to whole paise.  Rates are kept in percent.  Only finite       *)
(* amounts are entered.                                                    *)
(***************************************************************************)
EXTENDS Integers, Sequences, FiniteSets, TLC

(***************************************************************************)
(* Bounds of the model.                                                    *)
(***************************************************************************)
MaxOps == 2            \* menu choices handled in one run of the program
MaxAccounts == 3       \* accounts the collection may grow to

(***************************************************************************)
(* Money values and program constants.                                     *)
(***************************************************************************)
Amt(rupees, paise) == rupees * 1000 + paise * 10

ACCOUNT_TYPE_SAVINGS == "SAVINGS"
ACCOUNT_TYPE_CREDIT == "CREDIT"

MAX_INPUT_ATTEMPTS == 3
MAX_TRANSACTION_ATTEMPTS == 3
MIN_SAVINGS_DEPOSIT == Amt(500, 0)
MIN_CREDIT_DEPOSIT == Amt(5000, 0)

SAVINGS_FIRST_NUMBER == 1200
CREDIT_FIRST_NUMBER == 1900

MIN_WITHDRAWAL_AMOUNT == Amt(50, 0)
WITHDRAWAL_FEE == Amt(5, 0)
DEFAULT_INTEREST_RATE == 4
DEFAULT_MIN_BALANCE == Amt(500, 0)
MONTHS_PER_YEAR == 12

MIN_CASH_ADVANCE_AMOUNT == Amt(500, 0)
DEFAULT_CREDIT_LIMIT == Amt(5000, 0)
DEFAULT_DEBT_INTEREST_RATE == 15
DEFAULT_CASH_ADVANCE_FEE == 3

(***************************************************************************)
(* Float arithmetic, at the model's precision.                             *)
(***************************************************************************)
\* n / d rounded to the nearest integer, ties to even (d > 0).
RoundDiv(n, d) ==
    LET q == n \div d
        r == n % d
    IN  IF 2 * r < d THEN q
        ELSE IF 2 * r > d THEN q + 1
        ELSE IF q % 2 = 0 THEN q ELSE q + 1

\* x * rate, for a rate in percent.
MulRate(x, percent) == RoundDiv(x * percent, 100)

\* Mutant: the annual rate is applied every month.
MulAnnualRate(x, percent) == RoundDiv(x * percent, 100)

\* x * (annual rate / 12), for an annual rate in percent.
MulMonthlyRate(x, percent) == RoundDiv(x * percent, 100 * MONTHS_PER_YEAR)

Abs(x) == IF x < 0 THEN 0 - x ELSE x

\* f"{x:.2f}": a value in mills, as the whole number of paise it is printed as.
Fmt2(x) == RoundDiv(x, 10)

\* float("<paise>.xx"): the value a 2-decimal text parses to, in mills.
ParseFmt2(p) == p * 10

(***************************************************************************)
(* BankAccount (src/accounts/base_account.py).  An account is a record;    *)
(* its ledger is the rows this process appended to its transaction file.   *)
(***************************************************************************)
\* Mutant: the amount is recorded without its sign.
LedgerRow_unsigned(transaction_type, amount, balance) ==
    [transaction |-> transaction_type, amount |-> Fmt2(Abs(amount)), balance |-> Fmt2(balance)]

LedgerRow(transaction_type, amount, balance) ==
    [transaction |-> transaction_type, amount |-> Fmt2(amount), balance |-> Fmt2(balance)]

\* Mutant: the file is opened for writing, not for appending.
_log_transaction_overwriting(acc, transaction_type, amount) ==
    [acc EXCEPT !.ledger = <<LedgerRow(transaction_type, amount, acc.balance)>>]

_log_transaction(acc, transaction_type, amount) ==
    [acc EXCEPT !.ledger = Append(@, LedgerRow(transaction_type, amount, acc.balance))]

\* self._balance = new_balance.  changes counts the assignments that changed the
\* balance since the account was constructed (a history field, not a field of the class).
set_balance(acc, new_balance) ==
    [acc EXCEPT !.balance = new_balance,
                !.changes = IF new_balance = acc.balance THEN @ ELSE @ + 1]

\* The outcome of one method call on an account.
Outcome(ok, acc) == [ok |-> ok, acc |-> acc]

\* Mutant: negative amounts pass the check.
deposit_rejects_zero_only(amount) == amount = 0

\* Mutant: the savings minimum is applied to deposits.
deposit_rejects_below_minimum(amount) == amount <= MIN_WITHDRAWAL_AMOUNT

deposit_rejects(amount) == amount <= 0

\* Mutant: the balance is raised without the "Deposit" row.
deposit_unlogged(acc, amount) ==
    IF deposit_rejects(amount)
    THEN Outcome(FALSE, acc)
    ELSE Outcome(TRUE, set_balance(acc, acc.balance + amount))

deposit(acc, amount) ==
    IF deposit_rejects(amount)
    THEN Outcome(FALSE, acc)
    ELSE Outcome(TRUE, _log_transaction(set_balance(acc, acc.balance + amount), "Deposit", amount))

\* Mutant: an amount above the balance is paid out.
BankAccount_withdraw_overdrawing(acc, amount) ==
    IF amount <= 0
    THEN Outcome(FALSE, acc)
    ELSE Outcome(TRUE, _log_transaction(set_balance(acc, acc.balance - amount), "Withdrawal",
                                        0 - amount))

BankAccount_withdraw(acc, amount) ==
    IF amount <= 0 \/ amount > acc.balance
    THEN Outcome(FALSE, acc)
    ELSE Outcome(TRUE, _log_transaction(set_balance(acc, acc.balance - amount), "Withdrawal",
                                        0 - amount))

(***************************************************************************)
(* SavingsAccount (src/accounts/savings_account.py).                       *)
(***************************************************************************)
SavingsAccount(holder_name, balance, account_number, interest_rate, min_balance, ledger) ==
    [kind |-> ACCOUNT_TYPE_SAVINGS, holder_name |-> holder_name, balance |-> balance,
     account_number |-> account_number, interest_rate |-> interest_rate,
     min_balance |-> min_balance, ledger |-> ledger, changes |-> 0]

savings_fee_amount(skip_fee) == IF skip_fee THEN 0 ELSE WITHDRAWAL_FEE

\* Mutant: the fee is left out of the minimum-balance check.
savings_below_min_balance_without_fee(acc, amount, skip_fee) ==
    (acc.balance - amount) < acc.min_balance

\* Mutant: the floor of the check is zero, not the account's minimum balance.
savings_below_min_balance_zero_floor(acc, amount, skip_fee) ==
    (acc.balance - (amount + savings_fee_amount(skip_fee))) < 0

savings_below_min_balance(acc, amount, skip_fee) ==
    (acc.balance - (amount + savings_fee_amount(skip_fee))) < acc.min_balance

\* Mutant: the fee is deducted without its ledger row.
savings_apply_fee_unlogged(acc) == set_balance(acc, acc.balance - WITHDRAWAL_FEE)

savings_apply_fee(acc) ==
    _log_transaction(set_balance(acc, acc.balance - WITHDRAWAL_FEE), "Withdrawal Fee",
                     0 - WITHDRAWAL_FEE)

\* Mutant: the minimum balance is checked after the withdrawal, which is not undone.
SavingsAccount_withdraw_posthoc(acc, amount, skip_fee) ==
    IF amount < MIN_WITHDRAWAL_AMOUNT THEN Outcome(FALSE, acc)
    ELSE LET w == BankAccount_withdraw(acc, amount)
         IN  IF w.ok /\ (w.acc.balance - savings_fee_amount(skip_fee)) < acc.min_balance
             THEN Outcome(FALSE, w.acc)
             ELSE IF w.ok /\ ~skip_fee THEN Outcome(TRUE, savings_apply_fee(w.acc)) ELSE w

\* Mutant: the fee is charged and logged before the withdrawal.
SavingsAccount_withdraw_fee_first(acc, amount, skip_fee) ==
    IF amount < MIN_WITHDRAWAL_AMOUNT THEN Outcome(FALSE, acc)
    ELSE IF savings_below_min_balance(acc, amount, skip_fee) THEN Outcome(FALSE, acc)
    ELSE IF amount <= 0 \/ amount > acc.balance THEN Outcome(FALSE, acc)
    ELSE BankAccount_withdraw(IF skip_fee THEN acc ELSE savings_apply_fee(acc), amount)

\* Mutant: no minimum withdrawal amount.
SavingsAccount_withdraw_no_minimum_amount(acc, amount, skip_fee) ==
    IF savings_below_min_balance(acc, amount, skip_fee) THEN Outcome(FALSE, acc)
    ELSE LET w == BankAccount_withdraw(acc, amount)
         IN  IF w.ok /\ ~skip_fee THEN Outcome(TRUE, savings_apply_fee(w.acc)) ELSE w

SavingsAccount_withdraw(acc, amount, skip_fee) ==
    IF amount < MIN_WITHDRAWAL_AMOUNT THEN Outcome(FALSE, acc)
    ELSE IF savings_below_min_balance(acc, amount, skip_fee) THEN Outcome(FALSE, acc)
    ELSE LET w == BankAccount_withdraw(acc, amount)
         IN  IF w.ok /\ ~skip_fee THEN Outcome(TRUE, savings_apply_fee(w.acc)) ELSE w

\* Mutant: the interest is added and logged on a path of its own, whatever its sign.
apply_interest_direct(acc) ==
    LET interest_amount == MulMonthlyRate(acc.balance, acc.interest_rate)
    IN  _log_transaction(set_balance(acc, acc.balance + interest_amount), "Interest",
                         interest_amount)

apply_interest(acc) ==
    deposit(acc, MulMonthlyRate(acc.balance, acc.interest_rate)).acc

(***************************************************************************)
(* CreditAccount (src/accounts/credit_account.py).                         *)
(***************************************************************************)
CreditAccount(holder_name, balance, account_number, credit_limit, ledger) ==
    [kind |-> ACCOUNT_TYPE_CREDIT, holder_name |-> holder_name, balance |-> balance,
     account_number |-> account_number, credit_limit |-> credit_limit,
     debt_interest_rate |-> DEFAULT_DEBT_INTEREST_RATE,
     cash_advance_fee |-> DEFAULT_CASH_ADVANCE_FEE, ledger |-> ledger, changes |-> 0]

credit_fee(acc, amount) == MulRate(amount, acc.cash_advance_fee)

\* Mutant: the fee is left out of the credit-limit check.
credit_limit_exceeded_without_fee(acc, amount) ==
    (acc.balance - amount) < 0 - acc.credit_limit

credit_limit_exceeded(acc, amount) ==
    (acc.balance - (amount + credit_fee(acc, amount))) < 0 - acc.credit_limit

\* Mutant: no minimum cash-advance amount.
CreditAccount_withdraw_no_minimum(acc, amount) ==
    IF credit_limit_exceeded(acc, amount) THEN Outcome(FALSE, acc)
    ELSE LET fee == credit_fee(acc, amount)
             a1 == _log_transaction(set_balance(acc, acc.balance - amount), "Withdrawal",
                                    0 - amount)
             a2 == _log_transaction(set_balance(a1, a1.balance - fee), "Cash Advance Fee",
                                    0 - fee)
         IN  Outcome(TRUE, a2)

\* Mutant: the amount and the fee are deducted at once and logged as one row.
CreditAccount_withdraw_combined_row(acc, amount) ==
    IF amount < MIN_CASH_ADVANCE_AMOUNT THEN Outcome(FALSE, acc)
    ELSE IF credit_limit_exceeded(acc, amount) THEN Outcome(FALSE, acc)
    ELSE LET total_cost == amount + credit_fee(acc, amount)
         IN  Outcome(TRUE, _log_transaction(set_balance(acc, acc.balance - total_cost),
                                            "Withdrawal", 0 - total_cost))

CreditAccount_withdraw(acc, amount) ==
    IF amount < MIN_CASH_ADVANCE_AMOUNT THEN Outcome(FALSE, acc)
    ELSE IF credit_limit_exceeded(acc, amount) THEN Outcome(FALSE, acc)
    ELSE LET fee == credit_fee(acc, amount)
             a1 == _log_transaction(set_balance(acc, acc.balance - amount), "Withdrawal",
                                    0 - amount)
             a2 == _log_transaction(set_balance(a1, a1.balance - fee), "Cash Advance Fee",
                                    0 - fee)
         IN  Outcome(TRUE, a2)

\* Mutant: the interest is charged without its ledger row.
apply_debt_interest_unlogged(acc) ==
    IF acc.balance >= 0 THEN acc
    ELSE set_balance(acc, acc.balance - MulMonthlyRate(Abs(acc.balance), acc.debt_interest_rate))

\* Mutant: the charge respects the credit limit, as a cash advance does.
apply_debt_interest_within_limit(acc) ==
    IF acc.balance >= 0 THEN acc
    ELSE LET interest_amount == MulMonthlyRate(Abs(acc.balance), acc.debt_interest_rate)
         IN  IF acc.balance - interest_amount < 0 - acc.credit_limit THEN acc
             ELSE _log_transaction(set_balance(acc, acc.balance - interest_amount),
                                   "Debt Interest Charge", 0 - interest_amount)

apply_debt_interest(acc) ==
    IF acc.balance >= 0 THEN acc
    ELSE LET interest_amount == MulMonthlyRate(Abs(acc.balance), acc.debt_interest_rate)
         IN  _log_transaction(set_balance(acc, acc.balance - interest_amount),
                              "Debt Interest Charge", 0 - interest_amount)

available_credit(acc) == acc.credit_limit + acc.balance

\* account.withdraw(amount): the variant's override.
withdraw(acc, amount) ==
    IF acc.kind = ACCOUNT_TYPE_SAVINGS
    THEN SavingsAccount_withdraw(acc, amount, FALSE)
    ELSE CreditAccount_withdraw(acc, amount)

(***************************************************************************)
(* Inputs.  get_valid_input (src/input_utils.py) returns the converted     *)
(* value, or None after MAX_INPUT_ATTEMPTS unparsable lines.               *)
(***************************************************************************)
InputNone == [valid |-> FALSE, value |-> 0]
Input(v) == [valid |-> TRUE, value |-> v]

\* Amounts a user enters at the prompts.
Amounts ==
    {0 - Amt(100, 0), 0, Amt(49, 99), Amt(50, 0), Amt(100, 0), Amt(200, 0), Amt(500, 0),
     Amt(4800, 0), Amt(4900, 0)}

\* A raw line typed at a prompt: text the conversion accepts, with its value, or not.
Unparsable == [parsable |-> FALSE, value |-> 0]
Line(v) == [parsable |-> TRUE, value |-> v]

\* Mutant: one raw line more is read.
get_valid_input_one_more(lines) ==
    LET first == {k \in 1..(MAX_INPUT_ATTEMPTS + 1) : lines[k].parsable}
    IN  IF first = {} THEN [result |-> InputNone, reads |-> MAX_INPUT_ATTEMPTS + 1]
        ELSE LET k == CHOOSE k \in first : \A j \in first : k <= j
             IN  [result |-> Input(lines[k].value), reads |-> k]

\* The loop of get_valid_input after `tries` raw lines were read and refused.
RECURSIVE read_input(_, _)
read_input(lines, tries) ==
    IF tries = MAX_INPUT_ATTEMPTS THEN [result |-> InputNone, reads |-> tries]
    ELSE IF lines[tries + 1].parsable
    THEN [result |-> Input(lines[tries + 1].value), reads |-> tries + 1]
    ELSE read_input(lines, tries + 1)

\* get_valid_input on the lines the user types: the value returned and the lines read.
get_valid_input(lines) == read_input(lines, 0)

\* What a user types at a prompt for one of `values`: some refused lines, then an
\* accepted one.  Lines after it matter only if it is never reached: they are fixed.
LinesFor(values) ==
    { [k \in 1..(MAX_INPUT_ATTEMPTS + 1) |->
         IF k <= refused THEN Unparsable ELSE Line(v)] :
      refused \in 0..MAX_INPUT_ATTEMPTS, v \in values }

AmountLines == LinesFor(Amounts)

AmountInputs == {get_valid_input(lines).result : lines \in AmountLines}

\* An account number no account of the model carries.
UnknownNumber == 9999

NumbersOf(accts) == {accts[i].account_number : i \in 1..Len(accts)}

NumberInputs(accts) == {InputNone, Input(UnknownNumber)} \cup {Input(n) : n \in NumbersOf(accts)}

\* find_account: the index of the first account with the number entered, 0 for None.
find_account(accts, number_input) ==
    IF number_input.valid /\ \E i \in 1..Len(accts) : accts[i].account_number = number_input.value
    THEN CHOOSE i \in 1..Len(accts) :
             /\ accts[i].account_number = number_input.value
             /\ \A j \in 1..(i - 1) : accts[j].account_number # number_input.value
    ELSE 0

(***************************************************************************)
(* The master file (src/database_manager.py).                              *)
(***************************************************************************)
\* A row of the master file: its columns, how many of them the line holds, and
\* whether int() and float() parse those that _row_to_account converts.  The
\* sixth column of a Credit row is "N/A", which is never converted.
_account_to_row(acc) ==
    IF acc.kind = ACCOUNT_TYPE_SAVINGS
    THEN [type |-> ACCOUNT_TYPE_SAVINGS, number |-> acc.account_number, name |-> acc.holder_name,
          balance |-> Fmt2(acc.balance), rate_limit |-> acc.interest_rate,
          minbal_fee |-> acc.min_balance, columns |-> 6, numeric |-> TRUE]
    ELSE [type |-> ACCOUNT_TYPE_CREDIT, number |-> acc.account_number, name |-> acc.holder_name,
          balance |-> Fmt2(acc.balance), rate_limit |-> acc.credit_limit,
          minbal_fee |-> 0, columns |-> 6, numeric |-> TRUE]

\* Mutant: the account added last is not written.
save_master_data_without_last(accts) ==
    [i \in 1..(Len(accts) - 1) |-> _account_to_row(accts[i])]

save_master_data(accts) == [i \in 1..Len(accts) |-> _account_to_row(accts[i])]

\* The storage an operation runs on: sound, or failing (OSError) when the master
\* file is written, or failing when a ledger row is appended.
StorageOk == "ok"
SaveFails == "save_fails"
LedgerFails == "ledger_fails"

\* save_master_data(accts) on the file: what it returns and the file it leaves.  A
\* write that fails leaves the old file (open raised) or an empty one (the file
\* was truncated and no row reached it).
SaveOutcomes(file, accts, io) ==
    IF io = SaveFails
    THEN {[ok |-> FALSE, file |-> f] : f \in {file, <<>>}}
    ELSE {[ok |-> TRUE, file |-> save_master_data(accts)]}

\* Mutant: a failed write is reported as a success.
SaveResult_unreported(saves, written) == IF saves = 0 THEN "none" ELSE "ok"

\* What the handler's save_master_data call returned, "none" if it made none.
SaveResult(saves, written) ==
    IF saves = 0 THEN "none" ELSE IF written.ok THEN "ok" ELSE "failed"

\* Whether _row_to_account builds an account from the row: it returns None for a
\* row of fewer than five columns, for one whose numbers do not parse
\* (ValueError), for a Savings row without its sixth column (IndexError) and
\* for a type that is neither variant.
row_is_account(row) ==
    /\ row.columns >= 5
    /\ row.numeric
    /\ \/ row.type = ACCOUNT_TYPE_SAVINGS /\ row.columns >= 6
       \/ row.type = ACCOUNT_TYPE_CREDIT

\* Mutant: a reconstructed account is logged as created.
_row_to_account_logged(row) ==
    IF row.type = ACCOUNT_TYPE_SAVINGS
    THEN _log_transaction(SavingsAccount(row.name, ParseFmt2(row.balance), row.number,
                                         row.rate_limit, row.minbal_fee, <<>>),
                          "Account Created", ParseFmt2(row.balance))
    ELSE _log_transaction(CreditAccount(row.name, ParseFmt2(row.balance), row.number,
                                        row.rate_limit, <<>>),
                          "Account Created", ParseFmt2(row.balance))

\* Mutant: a reconstructed Savings account gets the default minimum balance.
_row_to_account_default_min_balance(row) ==
    IF row.type = ACCOUNT_TYPE_SAVINGS
    THEN SavingsAccount(row.name, ParseFmt2(row.balance), row.number, row.rate_limit,
                        DEFAULT_MIN_BALANCE, <<>>)
    ELSE CreditAccount(row.name, ParseFmt2(row.balance), row.number, row.rate_limit, <<>>)

\* The account a row is reconstructed as: its number kept, no ledger row appended.
_row_to_account(row) ==
    IF row.type = ACCOUNT_TYPE_SAVINGS
    THEN SavingsAccount(row.name, ParseFmt2(row.balance), row.number, row.rate_limit,
                        row.minbal_fee, <<>>)
    ELSE CreditAccount(row.name, ParseFmt2(row.balance), row.number, row.rate_limit, <<>>)

\* Mutant: the counter is set to the loaded number itself.
_update_next_account_number_off_by_one(counters, kind, account_number) ==
    IF account_number >= counters[kind]
    THEN [counters EXCEPT ![kind] = account_number]
    ELSE counters

\* _update_next_account_number, on the counter of the account's variant.
_update_next_account_number(counters, kind, account_number) ==
    IF account_number >= counters[kind]
    THEN [counters EXCEPT ![kind] = account_number + 1]
    ELSE counters

RECURSIVE load_rows(_, _, _)
load_rows(rows, accts, counters) ==
    IF rows = <<>> THEN [accounts |-> accts, counters |-> counters]
    ELSE LET row == Head(rows)
         IN  IF row_is_account(row)
             THEN load_rows(Tail(rows), Append(accts, _row_to_account(row)),
                            _update_next_account_number(counters, row.type, row.number))
             ELSE load_rows(Tail(rows), accts, counters)

\* Master files a run of the program may start from.
SavingsRow(number, name, balance, min_balance) ==
    [type |-> ACCOUNT_TYPE_SAVINGS, number |-> number, name |-> name, balance |-> Fmt2(balance),
     rate_limit |-> DEFAULT_INTEREST_RATE, minbal_fee |-> min_balance, columns |-> 6,
     numeric |-> TRUE]

CreditRow(number, name, balance, credit_limit) ==
    [type |-> ACCOUNT_TYPE_CREDIT, number |-> number, name |-> name, balance |-> Fmt2(balance),
     rate_limit |-> credit_limit, minbal_fee |-> 0, columns |-> 6, numeric |-> TRUE]

\* Rows _row_to_account makes no account of: a line cut after its fourth column,
\* a Savings line without its minimum balance, a line whose balance is not a
\* number, a line of another type, and a blank line.
MalformedRows ==
    << [SavingsRow(1201, "S", Amt(700, 0), DEFAULT_MIN_BALANCE) EXCEPT !.columns = 4],
       [SavingsRow(1202, "T", Amt(700, 0), DEFAULT_MIN_BALANCE) EXCEPT !.columns = 5],
       [CreditRow(1901, "U", 0, DEFAULT_CREDIT_LIMIT) EXCEPT !.numeric = FALSE],
       [CreditRow(1902, "V", 0, DEFAULT_CREDIT_LIMIT) EXCEPT !.type = "CURRENT"],
       [SavingsRow(1203, "W", 0, DEFAULT_MIN_BALANCE) EXCEPT !.columns = 0] >>

\* The third file is that of a bank whose Savings numbers have run up to the first
\* Credit number: of its Savings accounts the model keeps the one created last.
\* The last file was edited by hand: its Savings account may be overdrawn by
\* 500.00, and some of its lines are damaged.
StoredFiles ==
    { <<>>,
      << SavingsRow(1200, "A", Amt(100, 0), 0 - Amt(500, 0)) >>
          \o MalformedRows
          \o << CreditRow(1900, "B", 0, DEFAULT_CREDIT_LIMIT) >>,
      << SavingsRow(1200, "A", Amt(1000, 0), DEFAULT_MIN_BALANCE),
         CreditRow(1900, "B", 0, DEFAULT_CREDIT_LIMIT) >>,
      << SavingsRow(CREDIT_FIRST_NUMBER - 1, "A", Amt(1000, 0), DEFAULT_MIN_BALANCE),
         CreditRow(CREDIT_FIRST_NUMBER, "B", 0, DEFAULT_CREDIT_LIMIT) >> }

(***************************************************************************)
(* State.                                                                  *)
(***************************************************************************)
VARIABLES
    accounts,      \* the collection main() owns: a sequence of accounts
    next_number,   \* _next_account_number of SavingsAccount and of CreditAccount
    master,        \* the rows of the master file
    pc,            \* "boot", "menu", or "txn" inside perform_transaction's loop
    txn,           \* perform_transaction's locals while pc = "txn"
    last,          \* what the handler running or last run did
    ops            \* menu choices handled so far

vars == <<accounts, next_number, master, pc, txn, last, ops>>

NoTxn == [account |-> 0, transaction_type |-> "none", attempt |-> 0]

\* One method call a handler made: the method, the account's index, its result.
Call(method, on, ok) == [method |-> method, on |-> on, ok |-> ok]

\* The state a handler started from.
Snapshot(accts, counters, file) == [accounts |-> accts, next_number |-> counters, master |-> file]

\* save_result is what save_master_data returned; displays counts the
\* "Current Balance" lines perform_transaction has printed.
Did(op, result, src, dst, amount, calls, saves, pre) ==
    [op |-> op, result |-> result, src |-> src, dst |-> dst, amount |-> amount,
     calls |-> calls, saves |-> saves, pre |-> pre,
     save_result |-> IF saves = 0 THEN "none" ELSE "ok", displays |-> 0]

\* An exception left the handler and handle_menu_choice: the program has stopped.
Raised(op, src, dst, amount, calls, pre) ==
    Did(op, "raised", src, dst, amount, calls, 0, pre)

\* The account when its first _log_transaction raises: the balance is assigned,
\* no row is written.
interrupted(acc, new_balance) == set_balance(acc, new_balance)

Init ==
    /\ accounts = <<>>
    /\ next_number = [k \in {ACCOUNT_TYPE_SAVINGS, ACCOUNT_TYPE_CREDIT} |->
                         IF k = ACCOUNT_TYPE_SAVINGS THEN SAVINGS_FIRST_NUMBER
                         ELSE CREDIT_FIRST_NUMBER]
    /\ master \in StoredFiles
    /\ pc = "boot"
    /\ txn = NoTxn
    /\ last = Did("none", "none", 0, 0, 0, <<>>, 0, Snapshot(<<>>, <<>>, <<>>))
    /\ ops = 0

\* main(): load_master_data() before the menu loop.
LoadMasterData ==
    /\ pc = "boot"
    /\ LET loaded == load_rows(master, <<>>, next_number)
       IN  /\ accounts' = loaded.accounts
           /\ next_number' = loaded.counters
    /\ pc' = "menu"
    /\ last' = Did("load", "ok", 0, 0, 0, <<>>, 0, Snapshot(accounts, next_number, master))
    /\ UNCHANGED <<master, txn, ops>>

(***************************************************************************)
(* create_account (src/account_operations.py).                             *)
(***************************************************************************)
\* A fresh account of the variant: the generated number, one "Account Created" row.
new_account(kind, holder_name, initial_deposit, counters) ==
    LET number == counters[kind]
        blank == IF kind = ACCOUNT_TYPE_SAVINGS
                 THEN SavingsAccount(holder_name, initial_deposit, number,
                                     DEFAULT_INTEREST_RATE, DEFAULT_MIN_BALANCE, <<>>)
                 ELSE CreditAccount(holder_name, initial_deposit, number,
                                    DEFAULT_CREDIT_LIMIT, <<>>)
    IN  [account |-> _log_transaction(blank, "Account Created", initial_deposit),
         counters |-> [counters EXCEPT ![kind] = @ + 1]]

\* _create_account_by_type: "none" for a deposit under the variant's minimum.
_create_account_by_type(account_type, initial_deposit) ==
    IF account_type = 1
    THEN IF initial_deposit < MIN_SAVINGS_DEPOSIT THEN "none" ELSE ACCOUNT_TYPE_SAVINGS
    ELSE IF account_type = 2
    THEN IF initial_deposit < MIN_CREDIT_DEPOSIT THEN "none" ELSE ACCOUNT_TYPE_CREDIT
    ELSE "none"

Created(accts, counters, result, saves) ==
    [accounts |-> accts, counters |-> counters, result |-> result, saves |-> saves]

\* Mutant: the account is constructed before its deposit is checked, so a deposit
\* under the minimum spends an account number.
create_account_number_first(accts, counters, type_input, holder_name, deposit_input) ==
    IF ~type_input.valid \/ type_input.value \notin {1, 2}
    THEN Created(accts, counters, "invalid_choice", 0)
    ELSE IF holder_name = "" THEN Created(accts, counters, "empty_name", 0)
    ELSE IF ~deposit_input.valid THEN Created(accts, counters, "no_deposit", 0)
    ELSE LET kind == _create_account_by_type(type_input.value, deposit_input.value)
             n == new_account(IF type_input.value = 1 THEN ACCOUNT_TYPE_SAVINGS
                              ELSE ACCOUNT_TYPE_CREDIT,
                              holder_name, deposit_input.value, counters)
         IN  IF kind = "none" THEN Created(accts, n.counters, "below_minimum", 0)
             ELSE Created(Append(accts, n.account), n.counters, "ok", 1)

create_account(accts, counters, type_input, holder_name, deposit_input) ==
    IF ~type_input.valid \/ type_input.value \notin {1, 2}
    THEN Created(accts, counters, "invalid_choice", 0)
    ELSE IF holder_name = "" THEN Created(accts, counters, "empty_name", 0)
    ELSE IF ~deposit_input.valid THEN Created(accts, counters, "no_deposit", 0)
    ELSE LET kind == _create_account_by_type(type_input.value, deposit_input.value)
         IN  IF kind = "none" THEN Created(accts, counters, "below_minimum", 0)
             ELSE LET n == new_account(kind, holder_name, deposit_input.value, counters)
                  IN  Created(Append(accts, n.account), n.counters, "ok", 1)

TypeInputs == {InputNone, Input(1), Input(2), Input(3)}
HolderNames == {"", "N"}
InitialDeposits == {InputNone, Input(Amt(499, 99)), Input(Amt(500, 0)), Input(Amt(5000, 0))}

\* Inputs after the one that ends the dialogue are never read: they are fixed.
CreateInputs ==
    { i \in [type : TypeInputs, name : HolderNames, deposit : InitialDeposits] :
        /\ (~i.type.valid \/ i.type.value \notin {1, 2}) => (i.name = "" /\ i.deposit = InputNone)
        /\ (i.name = "") => (i.deposit = InputNone) }

CreateAccountOn(io) ==
    /\ pc = "menu"
    /\ ops < MaxOps
    /\ Len(accounts) < MaxAccounts
    /\ \E i \in CreateInputs :
         LET r == create_account(accounts, next_number, i.type, i.name, i.deposit)
             pre == Snapshot(accounts, next_number, master)
         IN  IF io = LedgerFails /\ r.result = "ok"
             THEN \* __init__ raises at "Account Created": the number is spent, no account
                  /\ next_number' = r.counters
                  /\ last' = Raised("create", 0, 0, i.deposit.value, <<>>, pre)
                  /\ pc' = "raised"
                  /\ UNCHANGED <<accounts, master>>
             ELSE \E written \in SaveOutcomes(master, r.accounts, io) :
                  /\ accounts' = r.accounts
                  /\ next_number' = r.counters
                  /\ master' = IF r.saves > 0 THEN written.file ELSE master
                  /\ last' = [Did("create", r.result, 0, 0,
                                  IF r.result = "ok" THEN i.deposit.value ELSE 0,
                                  <<>>, r.saves, pre)
                                 EXCEPT !.save_result = SaveResult(r.saves, written)]
                  /\ UNCHANGED pc
    /\ ops' = ops + 1
    /\ UNCHANGED txn

CreateAccount == CreateAccountOn(StorageOk)

(***************************************************************************)
(* perform_transaction: one step for find_account, one per attempt.        *)
(***************************************************************************)
_execute_transaction(acc, transaction_type, amount) ==
    IF transaction_type = "deposit" THEN deposit(acc, amount)
    ELSE IF transaction_type = "withdraw" THEN withdraw(acc, amount)
    ELSE Outcome(FALSE, acc)

PerformTransactionBegin ==
    /\ pc = "menu"
    /\ ops < MaxOps
    /\ \E transaction_type \in {"deposit", "withdraw"}, number_input \in NumberInputs(accounts) :
         LET account == find_account(accounts, number_input)
         IN  IF account = 0
             THEN /\ last' = Did(transaction_type, "not_found", 0, 0, 0, <<>>, 0,
                                 Snapshot(accounts, next_number, master))
                  /\ UNCHANGED <<pc, txn>>
             ELSE /\ last' = [Did(transaction_type, "in_progress", account, 0, 0, <<>>, 0,
                                  Snapshot(accounts, next_number, master))
                                 EXCEPT !.displays = 1]
                  /\ pc' = "txn"
                  /\ txn' = [account |-> account, transaction_type |-> transaction_type,
                             attempt |-> 1]
    /\ ops' = ops + 1
    /\ UNCHANGED <<accounts, next_number, master>>

\* Mutant: the loop runs one attempt more.
has_next_attempt_off_by_one(attempt) == attempt <= MAX_TRANSACTION_ATTEMPTS

\* Whether the loop runs another attempt after a failed one.
has_next_attempt(attempt) == attempt < MAX_TRANSACTION_ATTEMPTS

\* The "Current Balance" lines printed once an attempt got no amount: none is added.
displays_after_invalid_input(displays) == displays

\* The "Current Balance" lines printed once an attempt's operation was rejected.
displays_after_rejection(displays, attempt) ==
    IF attempt < MAX_TRANSACTION_ATTEMPTS THEN displays + 1 ELSE displays

\* The balance the operation assigns before its first ledger row.
first_assignment(acc, transaction_type, amount) ==
    IF transaction_type = "deposit" THEN acc.balance + amount ELSE acc.balance - amount

TransactionAttemptOn(io) ==
    /\ pc = "txn"
    /\ \E amount_input \in AmountInputs :
         IF ~amount_input.valid
         THEN /\ UNCHANGED <<accounts, master>>
              /\ IF has_next_attempt(txn.attempt)
                 THEN /\ txn' = [txn EXCEPT !.attempt = @ + 1]
                      /\ last' = [last EXCEPT
                                     !.displays = displays_after_invalid_input(@)]
                      /\ UNCHANGED pc
                 ELSE /\ txn' = NoTxn
                      /\ pc' = "menu"
                      /\ last' = [last EXCEPT
                                     !.result = "exhausted",
                                     !.displays = displays_after_invalid_input(@)]
         ELSE LET r == _execute_transaction(accounts[txn.account], txn.transaction_type,
                                            amount_input.value)
                  calls == Append(last.calls, Call(txn.transaction_type, txn.account, r.ok))
              IN  IF io = LedgerFails /\ r.ok
                  THEN \* the operation's first _log_transaction raises
                       /\ accounts' = [accounts EXCEPT ![txn.account] =
                                          interrupted(@, first_assignment(@,
                                              txn.transaction_type, amount_input.value))]
                       /\ txn' = NoTxn
                       /\ pc' = "raised"
                       /\ last' = [last EXCEPT !.result = "raised",
                                               !.amount = amount_input.value]
                       /\ UNCHANGED master
                  ELSE
                  /\ accounts' = [accounts EXCEPT ![txn.account] = r.acc]
                  /\ IF r.ok
                     THEN \E written \in SaveOutcomes(master, accounts', io) :
                          /\ master' = written.file
                          /\ txn' = NoTxn
                          /\ pc' = "menu"
                          /\ last' = [last EXCEPT !.result = "ok", !.calls = calls,
                                                  !.amount = amount_input.value, !.saves = 1,
                                                  !.save_result = SaveResult(1, written)]
                     ELSE /\ UNCHANGED master
                          /\ IF has_next_attempt(txn.attempt)
                             THEN /\ txn' = [txn EXCEPT !.attempt = @ + 1]
                                  /\ last' = [last EXCEPT
                                                 !.calls = calls,
                                                 !.displays = displays_after_rejection(
                                                                  @, txn.attempt)]
                                  /\ UNCHANGED pc
                             ELSE /\ txn' = NoTxn
                                  /\ pc' = "menu"
                                  /\ last' = [last EXCEPT
                                                 !.result = "exhausted",
                                                 !.calls = calls,
                                                 !.displays = displays_after_rejection(
                                                                  @, txn.attempt)]
    /\ UNCHANGED <<next_number, ops>>

TransactionAttempt == TransactionAttemptOn(StorageOk)

(***************************************************************************)
(* end_of_month_process.                                                   *)
(***************************************************************************)
month_end_account(acc) ==
    IF acc.kind = ACCOUNT_TYPE_SAVINGS THEN apply_interest(acc) ELSE apply_debt_interest(acc)

month_end_call(acc, i) ==
    Call(IF acc.kind = ACCOUNT_TYPE_SAVINGS THEN "apply_interest" ELSE "apply_debt_interest",
         i, TRUE)

\* What a run has done so far: the accounts, the calls made, the saves made.
MonthEnd(accts, calls, saves) == [accounts |-> accts, calls |-> calls, saves |-> saves]

\* for account in accounts: the iterations from the i-th account on.
RECURSIVE month_end_loop(_, _)
month_end_loop(run, i) ==
    IF i > Len(run.accounts) THEN run
    ELSE month_end_loop(MonthEnd([run.accounts EXCEPT ![i] = month_end_account(@)],
                                 Append(run.calls, month_end_call(run.accounts[i], i)),
                                 run.saves),
                        i + 1)

\* Mutant: the master data is saved after every account, not after the pass.
end_of_month_process_saving_each(accts) ==
    LET run == month_end_loop(MonthEnd(accts, <<>>, 0), 1)
    IN  MonthEnd(run.accounts, run.calls, Len(accts))

end_of_month_process(accts) ==
    LET run == month_end_loop(MonthEnd(accts, <<>>, 0), 1)
    IN  MonthEnd(run.accounts, run.calls, run.saves + 1)

\* The accounts whose interest step appends a ledger row.
month_end_logging(accts) == {i \in 1..Len(accts) : month_end_account(accts[i]) # accts[i]}

EndOfMonthProcessOn(io) ==
    /\ pc = "menu"
    /\ ops < MaxOps
    /\ LET run == end_of_month_process(accounts)
           pre == Snapshot(accounts, next_number, master)
           logging == month_end_logging(accounts)
       IN  IF io = LedgerFails /\ logging # {}
           THEN \* the first step that logs raises: the pass ends there, unsaved
                LET i == CHOOSE i \in logging : \A j \in logging : i <= j
                IN  /\ accounts' = [accounts EXCEPT ![i] =
                                       interrupted(@, month_end_account(@).balance)]
                    /\ last' = Raised("month_end", i, 0, 0, SubSeq(run.calls, 1, i - 1), pre)
                    /\ pc' = "raised"
                    /\ UNCHANGED master
           ELSE \E written \in SaveOutcomes(master, run.accounts, io) :
                /\ accounts' = run.accounts
                /\ master' = IF run.saves > 0 THEN written.file ELSE master
                /\ last' = [Did("month_end", "ok", 0, 0, 0, run.calls, run.saves, pre)
                               EXCEPT !.save_result = SaveResult(run.saves, written)]
                /\ UNCHANGED pc
    /\ ops' = ops + 1
    /\ UNCHANGED <<next_number, txn>>

EndOfMonthProcess == EndOfMonthProcessOn(StorageOk)

(***************************************************************************)
(* transfer_money.                                                         *)
(***************************************************************************)
Transferred(accts, result, src, dst, amount, calls, saves) ==
    [accounts |-> accts, result |-> result, src |-> src, dst |-> dst, amount |-> amount,
     calls |-> calls, saves |-> saves]

same_account(from_account, to_account) ==
    from_account.account_number = to_account.account_number

\* Mutant: a zero amount passes the check.
transfer_rejects_amount_negative_only(amount) == amount < 0

transfer_rejects_amount(amount) == amount <= 0

\* Mutant: a Savings source is charged the withdrawal fee.
transfer_withdraw_with_fee(from_account, amount) == withdraw(from_account, amount)

\* Mutant: a Credit source is spared the cash-advance fee, as a Savings source is
\* spared the withdrawal fee.
transfer_withdraw_without_credit_fee(from_account, amount) ==
    IF from_account.kind = ACCOUNT_TYPE_SAVINGS
    THEN SavingsAccount_withdraw(from_account, amount, TRUE)
    ELSE IF amount < MIN_CASH_ADVANCE_AMOUNT \/ credit_limit_exceeded(from_account, amount)
    THEN Outcome(FALSE, from_account)
    ELSE Outcome(TRUE, _log_transaction(set_balance(from_account,
                                                    from_account.balance - amount),
                                        "Withdrawal", 0 - amount))

\* The withdrawal from the source: a Savings source skips the withdrawal fee.
transfer_withdraw(from_account, amount) ==
    IF from_account.kind = ACCOUNT_TYPE_SAVINGS
    THEN SavingsAccount_withdraw(from_account, amount, TRUE)
    ELSE withdraw(from_account, amount)

\* Mutant: the amount withdrawn is deposited to every account but the source.
transfer_execute_crediting_all(accts, src, dst, amount) ==
    LET w == transfer_withdraw(accts[src], amount)
        debited == [accts EXCEPT ![src] = w.acc]
        credited == [k \in 1..Len(accts) |->
                        IF k = src THEN debited[k] ELSE deposit(debited[k], amount).acc]
    IN  IF ~w.ok
        THEN Transferred(debited, "withdraw_failed", src, dst, amount,
                         <<Call("withdraw", src, FALSE)>>, 0)
        ELSE Transferred(credited, "ok", src, dst, amount,
                         <<Call("withdraw", src, TRUE), Call("deposit", dst, TRUE)>>, 1)

\* The steps after the amount was accepted: withdraw, deposit, roll back.
transfer_execute(accts, src, dst, amount) ==
    LET w == transfer_withdraw(accts[src], amount)
        debited == [accts EXCEPT ![src] = w.acc]
        d == deposit(debited[dst], amount)
        credited == [debited EXCEPT ![dst] = d.acc]
        rollback == deposit(credited[src], amount)
    IN  IF ~w.ok
        THEN Transferred(debited, "withdraw_failed", src, dst, amount,
                         <<Call("withdraw", src, FALSE)>>, 0)
        ELSE IF ~d.ok
        THEN Transferred([credited EXCEPT ![src] = rollback.acc], "deposit_failed", src, dst,
                         amount,
                         <<Call("withdraw", src, TRUE), Call("deposit", dst, FALSE),
                           Call("deposit", src, rollback.ok)>>, 0)
        ELSE Transferred(credited, "ok", src, dst, amount,
                         <<Call("withdraw", src, TRUE), Call("deposit", dst, TRUE)>>, 1)

transfer_money(accts, from_input, to_input, amount_input) ==
    LET src == find_account(accts, from_input)
        dst == find_account(accts, to_input)
    IN  IF src = 0 THEN Transferred(accts, "from_not_found", 0, 0, 0, <<>>, 0)
        ELSE IF dst = 0 THEN Transferred(accts, "to_not_found", src, 0, 0, <<>>, 0)
        ELSE IF same_account(accts[src], accts[dst])
        THEN Transferred(accts, "same_account", src, dst, 0, <<>>, 0)
        ELSE IF ~amount_input.valid THEN Transferred(accts, "no_amount", src, dst, 0, <<>>, 0)
        ELSE IF transfer_rejects_amount(amount_input.value)
        THEN Transferred(accts, "nonpositive", src, dst, amount_input.value, <<>>, 0)
        ELSE transfer_execute(accts, src, dst, amount_input.value)

\* Inputs after the one that ends the dialogue are never read: they are fixed.
TransferInputs(accts) ==
    { i \in [from : NumberInputs(accts), to : NumberInputs(accts), amount : AmountInputs] :
        LET src == find_account(accts, i.from)
            dst == find_account(accts, i.to)
        IN  /\ (src = 0) => (i.to = InputNone)
            /\ (src = 0 \/ dst = 0 \/ src = dst) => (i.amount = InputNone) }

TransferMoneyOn(io) ==
    /\ pc = "menu"
    /\ ops < MaxOps
    /\ \E i \in TransferInputs(accounts) :
         LET r == transfer_money(accounts, i.from, i.to, i.amount)
             pre == Snapshot(accounts, next_number, master)
         IN  IF io = LedgerFails /\ r.calls # <<>> /\ r.calls[1].ok
             THEN \* the source's withdraw raises at its "Withdrawal" row
                  /\ accounts' = [accounts EXCEPT ![r.src] =
                                     interrupted(@, first_assignment(@, "withdraw", r.amount))]
                  /\ last' = Raised("transfer", r.src, r.dst, r.amount, <<>>, pre)
                  /\ pc' = "raised"
                  /\ UNCHANGED master
             ELSE \E written \in SaveOutcomes(master, r.accounts, io) :
                  /\ accounts' = r.accounts
                  /\ master' = IF r.saves > 0 THEN written.file ELSE master
                  /\ last' = [Did("transfer", r.result, r.src, r.dst, r.amount, r.calls,
                                  r.saves, pre)
                                 EXCEPT !.save_result = SaveResult(r.saves, written)]
                  /\ UNCHANGED pc
    /\ ops' = ops + 1
    /\ UNCHANGED <<next_number, txn>>

TransferMoney == TransferMoneyOn(StorageOk)

(***************************************************************************)
(* The program: main() loads the master file, then serves the menu.        *)
(***************************************************************************)
Next ==
    \/ LoadMasterData
    \/ CreateAccount
    \/ PerformTransactionBegin
    \/ TransactionAttempt
    \/ EndOfMonthProcess
    \/ TransferMoney

Spec == Init /\ [][Next]_vars

(***************************************************************************)
(* The program on a storage that may fail: any operation may find the      *)
(* master file unwritable, or the ledger files unwritable.                 *)
(***************************************************************************)
CreateAccountSaveFault == CreateAccountOn(SaveFails)
TransactionAttemptSaveFault == TransactionAttemptOn(SaveFails)
EndOfMonthProcessSaveFault == EndOfMonthProcessOn(SaveFails)
TransferMoneySaveFault == TransferMoneyOn(SaveFails)
CreateAccountLedgerFault == CreateAccountOn(LedgerFails)
TransactionAttemptLedgerFault == TransactionAttemptOn(LedgerFails)
EndOfMonthProcessLedgerFault == EndOfMonthProcessOn(LedgerFails)
TransferMoneyLedgerFault == TransferMoneyOn(LedgerFails)

FaultNext ==
    \/ LoadMasterData
    \/ CreateAccount
    \/ PerformTransactionBegin
    \/ TransactionAttempt
    \/ EndOfMonthProcess
    \/ TransferMoney
    \/ CreateAccountSaveFault
    \/ TransactionAttemptSaveFault
    \/ EndOfMonthProcessSaveFault
    \/ TransferMoneySaveFault
    \/ CreateAccountLedgerFault
    \/ TransactionAttemptLedgerFault
    \/ EndOfMonthProcessLedgerFault
    \/ TransferMoneyLedgerFault

FaultSpec == Init /\ [][FaultNext]_vars

\* The user answers every prompt: an attempt that is waiting for its amount runs.
FairSpec == Spec /\ WF_vars(TransactionAttempt)

(***************************************************************************)
(* Properties.                                                             *)
(***************************************************************************)
Indexes == 1..Len(accounts)

\* The rows of a master file that load_master_data makes accounts of.
AccountRows(rows) == SelectSeq(rows, row_is_account)
IsSavings(acc) == acc.kind = ACCOUNT_TYPE_SAVINGS
IsCredit(acc) == acc.kind = ACCOUNT_TYPE_CREDIT
Pre(i) == last.pre.accounts[i]
TransferDone(result) == last.op = "transfer" /\ last.result = result

\* The rows a call appended to an account's ledger.
Appended(before, after) == SubSeq(after.ledger, Len(before.ledger) + 1, Len(after.ledger))

\* C1: a successful transfer between two distinct accounts leaves the sum of the
\* source and destination balances as it was, whatever the two variants.
C1_TransferConservesSum ==
    TransferDone("ok") =>
        accounts[last.src].balance + accounts[last.dst].balance
            = Pre(last.src).balance + Pre(last.dst).balance

\* C2: every successful SavingsAccount.withdraw(amount, skip_fee), with the fee or
\* without, leaves balance >= min_balance, and so does every row it appends (the
\* "Withdrawal" row and the "Withdrawal Fee" row).
C2_SavingsWithdrawKeepsMinBalance ==
    \A i \in Indexes : IsSavings(accounts[i]) =>
        \A amount \in Amounts, skip_fee \in BOOLEAN :
            LET r == SavingsAccount_withdraw(accounts[i], amount, skip_fee)
                rows == Appended(accounts[i], r.acc)
            IN  r.ok =>
                  /\ r.acc.balance >= r.acc.min_balance
                  /\ \A k \in 1..Len(rows) : rows[k].balance >= Fmt2(r.acc.min_balance)

\* A regular withdrawal from a Savings account succeeded and charged its fee.
C2_Witness ==
    /\ last.op = "withdraw" /\ last.result = "ok"
    /\ IsSavings(accounts[last.src])
    /\ accounts[last.src].balance = Pre(last.src).balance - last.amount - WITHDRAWAL_FEE

\* C3: every successful CreditAccount.withdraw(amount) leaves balance >= -credit_limit
\* with the cash-advance fee deducted; available_credit is then >= 0.
C3_CreditWithdrawKeepsLimit ==
    \A i \in Indexes : IsCredit(accounts[i]) =>
        \A amount \in Amounts :
            LET r == CreditAccount_withdraw(accounts[i], amount)
            IN  r.ok =>
                  /\ r.acc.balance = accounts[i].balance - amount - credit_fee(accounts[i], amount)
                  /\ r.acc.balance >= 0 - r.acc.credit_limit
                  /\ available_credit(r.acc) >= 0

\* A cash advance succeeded and left the account in debt.
C3_Witness ==
    /\ last.op = "withdraw" /\ last.result = "ok"
    /\ IsCredit(accounts[last.src])
    /\ accounts[last.src].balance < 0

\* C4 as claimed: in every reachable state every Credit account's balance is
\* bounded below by -credit_limit.
C4_CreditNeverBelowLimit ==
    \A i \in Indexes : IsCredit(accounts[i]) =>
        accounts[i].balance >= 0 - accounts[i].credit_limit

\* C4 as amended: no deposit, cash advance or transfer takes a Credit balance that
\* is >= -credit_limit below -credit_limit; the only step that does is a month-end
\* run, by the account's "Debt Interest Charge".
C4_OnlyDebtInterestGoesBelowLimit ==
    [][\A i \in Indexes :
          ( /\ IsCredit(accounts[i])
            /\ accounts[i].balance >= 0 - accounts[i].credit_limit
            /\ accounts'[i].balance < 0 - accounts'[i].credit_limit )
          => /\ last'.op = "month_end"
             /\ accounts'[i].ledger[Len(accounts'[i].ledger)].transaction
                    = "Debt Interest Charge"]_vars

\* A month-end run has taken a Credit account below its limit.
C4_Witness ==
    /\ last.op = "month_end"
    /\ \E i \in Indexes :
         /\ IsCredit(accounts[i])
         /\ Pre(i).balance >= 0 - Pre(i).credit_limit
         /\ accounts[i].balance < 0 - accounts[i].credit_limit

\* The ledger-producing sub-events the handler running or last run performed on
\* account i: creation, deposit, withdrawal, fee, interest, debt charge.
SubEvents(i) ==
    IF last.result # "ok" THEN 0
    ELSE IF last.op = "create" THEN (IF i = Len(accounts) THEN 1 ELSE 0)
    ELSE IF last.op = "deposit" THEN (IF i = last.src THEN 1 ELSE 0)
    ELSE IF last.op = "withdraw" THEN (IF i = last.src THEN 2 ELSE 0)
    ELSE IF last.op = "transfer"
    THEN (IF i = last.src THEN (IF IsSavings(accounts[i]) THEN 1 ELSE 2)
          ELSE IF i = last.dst THEN 1 ELSE 0)
    ELSE IF last.op = "month_end"
    THEN (IF IsSavings(accounts[i]) THEN (IF Pre(i).balance > 0 THEN 1 ELSE 0)
          ELSE (IF Pre(i).balance < 0 THEN 1 ELSE 0))
    ELSE 0

RowsBefore(i) == IF i <= Len(last.pre.accounts) THEN Len(Pre(i).ledger) ELSE 0

LastRow(acc) == acc.ledger[Len(acc.ledger)]

\* C5 as claimed: for every account with a ledger row, the balance recorded in the
\* last row equals the current balance, and the rows are as many as the sub-events.
C5_LastRowEqualsBalance ==
    \A i \in Indexes : accounts[i].ledger # <<>> =>
        /\ ParseFmt2(LastRow(accounts[i]).balance) = accounts[i].balance
        /\ Len(accounts[i].ledger) = RowsBefore(i) + SubEvents(i)

\* C5 as amended: the last row records the current balance formatted to 2 decimals,
\* and each handler adds to an account's ledger as many rows as the sub-events it
\* performed on the account.
C5_LastRowIsBalanceTo2Decimals ==
    \A i \in Indexes :
        /\ accounts[i].ledger # <<>> => LastRow(accounts[i]).balance = Fmt2(accounts[i].balance)
        /\ Len(accounts[i].ledger) = RowsBefore(i) + SubEvents(i)

\* An account whose balance is not a whole number of paise, with its row written.
C5_Witness ==
    \E i \in Indexes :
        /\ accounts[i].ledger # <<>>
        /\ ParseFmt2(Fmt2(accounts[i].balance)) # accounts[i].balance
        /\ SubEvents(i) = 1

IsChangeRow(row) == row.transaction # "Account Created"

\* C6: every change of a balance has exactly one ledger row and every row but
\* "Account Created" has a change: per account, the rows are as many as the
\* changes, in every state and so within every operation.
C6_EveryChangeHasOneRow ==
    \A i \in Indexes :
        /\ Len(SelectSeq(accounts[i].ledger, IsChangeRow)) = accounts[i].changes
        /\ i <= Len(last.pre.accounts) =>
             /\ (accounts[i].balance # Pre(i).balance) <=> (accounts[i].changes > Pre(i).changes)
             /\ Len(accounts[i].ledger) - Len(Pre(i).ledger)
                    = accounts[i].changes - Pre(i).changes

\* One operation has changed a balance twice (a withdrawal and its fee).
C6_Witness ==
    \E i \in Indexes :
        /\ i <= Len(last.pre.accounts)
        /\ accounts[i].changes = Pre(i).changes + 2
        /\ Len(accounts[i].ledger) = Len(Pre(i).ledger) + 2

\* C7: a transfer whose source withdrawal fails leaves every balance and ledger as
\* before, never calls the destination's deposit, and saves nothing.
C7_FailedWithdrawalAborts ==
    TransferDone("withdraw_failed") =>
        /\ accounts = last.pre.accounts
        /\ last.calls = <<Call("withdraw", last.src, FALSE)>>
        /\ last.saves = 0
        /\ master = last.pre.master

\* A transfer from a Savings source was refused for the minimum balance.
C7_Witness ==
    /\ TransferDone("withdraw_failed")
    /\ IsSavings(accounts[last.src])
    /\ last.amount >= MIN_WITHDRAWAL_AMOUNT

\* C9: once the amount has passed the amount > 0 check and the source withdrawal has
\* succeeded, the destination deposit succeeds: the transfer ends credited to the
\* destination, never at "deposit failed" and never rolled back.
C9_DepositAfterWithdrawalSucceeds ==
    (last.op = "transfer" /\ last.calls # <<>> /\ last.calls[1].ok) =>
        /\ last.result = "ok"
        /\ last.calls = <<Call("withdraw", last.src, TRUE), Call("deposit", last.dst, TRUE)>>
        /\ accounts[last.dst].balance = Pre(last.dst).balance + last.amount
        /\ accounts[last.src].balance < Pre(last.src).balance

\* A transfer has debited its source.
C9_Witness ==
    /\ last.op = "transfer" /\ last.calls # <<>> /\ last.calls[1].ok
    /\ last.amount > 0

\* C10: a transfer between accounts of the same number, or of an amount <= 0, is
\* rejected before any withdrawal: no call is made, no balance and no ledger
\* changes, nothing is saved.
C10_RejectedBeforeWithdrawal ==
    ( /\ last.op = "transfer"
      /\ last.result \notin {"from_not_found", "to_not_found", "no_amount"}
      /\ \/ same_account(Pre(last.src), Pre(last.dst))
         \/ last.amount <= 0 )
    => /\ last.result \in {"same_account", "nonpositive"}
       /\ last.calls = <<>>
       /\ accounts = last.pre.accounts
       /\ last.saves = 0
       /\ master = last.pre.master

\* A transfer of amount 0 between two distinct accounts was rejected.
C10_Witness ==
    /\ TransferDone("nonpositive")
    /\ last.amount = 0
    /\ ~same_account(Pre(last.src), Pre(last.dst))

\* C11: a successful transfer of amount A from a Savings source takes exactly A from
\* the source, with one "Withdrawal" row and no "Withdrawal Fee" row, and adds
\* exactly A to the destination with one "Deposit" row; the minimum-balance check
\* uses fee 0, so a transfer from a Savings source is refused only for an amount
\* under the minimum withdrawal, one that leaves less than min_balance with no
\* fee counted, or one above the balance.
C11_SavingsTransferHasNoFee ==
    /\ (TransferDone("ok") /\ IsSavings(Pre(last.src))) =>
          /\ accounts[last.src].balance = Pre(last.src).balance - last.amount
          /\ Appended(Pre(last.src), accounts[last.src])
                 = << [transaction |-> "Withdrawal", amount |-> Fmt2(0 - last.amount),
                       balance |-> Fmt2(Pre(last.src).balance - last.amount)] >>
          /\ accounts[last.dst].balance = Pre(last.dst).balance + last.amount
          /\ Appended(Pre(last.dst), accounts[last.dst])
                 = << [transaction |-> "Deposit", amount |-> Fmt2(last.amount),
                       balance |-> Fmt2(Pre(last.dst).balance + last.amount)] >>
    /\ (TransferDone("withdraw_failed") /\ IsSavings(Pre(last.src))) =>
          \/ last.amount < MIN_WITHDRAWAL_AMOUNT
          \/ Pre(last.src).balance - last.amount < Pre(last.src).min_balance
          \/ last.amount > Pre(last.src).balance

\* A transfer from a Savings source succeeded although the withdrawal fee would
\* have taken the source under its minimum balance.
C11_Witness ==
    /\ TransferDone("ok")
    /\ IsSavings(Pre(last.src))
    /\ Pre(last.src).balance - last.amount - WITHDRAWAL_FEE < Pre(last.src).min_balance

\* The spec's scenario: 200 from Savings (1000, min 500) to Credit (0) gives 800 and 200.
C11_Scenario ==
    /\ TransferDone("ok")
    /\ IsSavings(Pre(last.src)) /\ IsCredit(Pre(last.dst))
    /\ Pre(last.src).balance = Amt(1000, 0) /\ Pre(last.dst).balance = 0
    /\ last.amount = Amt(200, 0)
    /\ accounts[last.src].balance = Amt(800, 0) /\ accounts[last.dst].balance = Amt(200, 0)

\* Whether a call left every field of the account but balance and ledger as it was.
OnlyBalanceAndLedger(before, after) ==
    [after EXCEPT !.balance = before.balance, !.ledger = before.ledger,
                  !.changes = before.changes] = before

\* C12: deposit(amount), on any account the program holds: for amount <= 0 it
\* returns failure and leaves the account as it was; otherwise it returns success,
\* raises the balance by exactly amount and appends exactly one "Deposit" row with
\* +amount and the resulting balance (as the ledger writes them, to 2 decimals).
\* A deposit made through perform_transaction does the same to the collection.
C12_DepositContract ==
    /\ \A i \in Indexes, amount \in Amounts \cup {1} :
          LET acc == accounts[i]
              r == deposit(acc, amount)
          IN  IF amount <= 0
              THEN ~r.ok /\ r.acc = acc
              ELSE /\ r.ok
                   /\ r.acc.balance = acc.balance + amount
                   /\ Appended(acc, r.acc)
                          = << [transaction |-> "Deposit", amount |-> Fmt2(amount),
                                balance |-> Fmt2(acc.balance + amount)] >>
                   /\ OnlyBalanceAndLedger(acc, r.acc)
    /\ last.op = "deposit" /\ last.result # "not_found" =>
          IF last.result = "ok"
          THEN /\ last.amount > 0
               /\ accounts[last.src].balance = Pre(last.src).balance + last.amount
               /\ Len(accounts[last.src].ledger) = Len(Pre(last.src).ledger) + 1
          ELSE accounts = last.pre.accounts

\* A deposit was refused for its amount and the next one, of a positive amount, made.
C12_Witness ==
    /\ last.op = "deposit" /\ last.result = "ok"
    /\ Len(last.calls) = 2
    /\ ~last.calls[1].ok /\ last.calls[2].ok
    /\ LastRow(accounts[last.src]).transaction = "Deposit"

\* Amounts a withdrawal is checked on: those entered, and those of the spec's scenarios.
WithdrawalAmounts == Amounts \cup {Amt(450, 0), Amt(4600, 0)}

\* C13: SavingsAccount.withdraw fails and leaves the account (balance and ledger)
\* as it was for every amount < 50.00, and for every amount >= 50.00 with
\* balance - amount - fee < min_balance, the fee being 5.00 for a regular
\* withdrawal and 0 with skip_fee; a refused withdrawal entered at the menu
\* leaves the collection as it was.
C13_SavingsWithdrawRefusals ==
    /\ \A i \in Indexes : IsSavings(accounts[i]) =>
          \A amount \in WithdrawalAmounts, skip_fee \in BOOLEAN :
              LET acc == accounts[i]
                  fee == IF skip_fee THEN 0 ELSE Amt(5, 0)
                  r == SavingsAccount_withdraw(acc, amount, skip_fee)
              IN  (amount < Amt(50, 0) \/ acc.balance - amount - fee < acc.min_balance)
                      => (~r.ok /\ r.acc = acc)
    /\ ( /\ last.op = "withdraw" /\ last.src # 0 /\ IsSavings(accounts[last.src])
          /\ last.result # "ok" )
       => accounts = last.pre.accounts

\* A withdrawal from a Savings account was refused at the menu, and the account
\* holds a balance that an amount of 50.00 or more would take under the minimum.
C13_Witness ==
    /\ last.op = "withdraw" /\ last.src # 0 /\ IsSavings(accounts[last.src])
    /\ last.calls # <<>> /\ ~last.calls[1].ok
    /\ accounts[last.src] = Pre(last.src)
    /\ \E amount \in Amounts :
          /\ amount >= MIN_WITHDRAWAL_AMOUNT
          /\ amount <= accounts[last.src].balance
          /\ accounts[last.src].balance - amount - WITHDRAWAL_FEE < accounts[last.src].min_balance

\* The two rows of a regular Savings withdrawal of amount from balance.
SavingsWithdrawalRows(balance, amount) ==
    << [transaction |-> "Withdrawal", amount |-> Fmt2(0 - amount),
        balance |-> Fmt2(balance - amount)],
       [transaction |-> "Withdrawal Fee", amount |-> Fmt2(0 - Amt(5, 0)),
        balance |-> Fmt2(balance - amount - Amt(5, 0))] >>

\* C14: a successful regular Savings withdrawal of amount lowers the balance by
\* amount + 5.00 and appends two rows in this order: "Withdrawal" with -amount,
\* then "Withdrawal Fee" with -5.00; so does one entered at the menu.  With
\* balance 1000 and min 500, withdraw(100) gives 895 and then withdraw(450) fails.
C14_SavingsWithdrawTwoRows ==
    /\ \A i \in Indexes : IsSavings(accounts[i]) =>
          \A amount \in WithdrawalAmounts :
              LET acc == accounts[i]
                  r == SavingsAccount_withdraw(acc, amount, FALSE)
              IN  /\ r.ok =>
                        /\ r.acc.balance = acc.balance - amount - Amt(5, 0)
                        /\ Appended(acc, r.acc) = SavingsWithdrawalRows(acc.balance, amount)
                        /\ OnlyBalanceAndLedger(acc, r.acc)
                  /\ (acc.balance = Amt(1000, 0) /\ acc.min_balance = Amt(500, 0)
                          /\ amount = Amt(100, 0)) =>
                        /\ r.ok /\ r.acc.balance = Amt(895, 0)
                        /\ ~SavingsAccount_withdraw(r.acc, Amt(450, 0), FALSE).ok
    /\ (last.op = "withdraw" /\ last.result = "ok" /\ IsSavings(accounts[last.src])) =>
          /\ accounts[last.src].balance = Pre(last.src).balance - last.amount - Amt(5, 0)
          /\ Appended(Pre(last.src), accounts[last.src])
                 = SavingsWithdrawalRows(Pre(last.src).balance, last.amount)

\* The scenario at the menu: 100 withdrawn from a Savings account of balance 1000
\* and minimum 500, which now holds 895 and refuses a withdrawal of 450.
C14_Witness ==
    /\ last.op = "withdraw" /\ last.result = "ok" /\ IsSavings(accounts[last.src])
    /\ Pre(last.src).balance = Amt(1000, 0) /\ Pre(last.src).min_balance = Amt(500, 0)
    /\ last.amount = Amt(100, 0)
    /\ accounts[last.src].balance = Amt(895, 0)
    /\ Len(accounts[last.src].ledger) = Len(Pre(last.src).ledger) + 2
    /\ ~withdraw(accounts[last.src], Amt(450, 0)).ok

\* C15: CreditAccount.withdraw fails and leaves the account (balance and ledger) as
\* it was for every amount < 500.00, and for every amount >= 500.00 with
\* balance - amount * (1 + cash_advance_fee) < -credit_limit (the rate in percent,
\* both sides times 100); a refused cash advance entered at the menu leaves the
\* collection as it was.
C15_CreditWithdrawRefusals ==
    /\ \A i \in Indexes : IsCredit(accounts[i]) =>
          \A amount \in WithdrawalAmounts :
              LET acc == accounts[i]
                  r == CreditAccount_withdraw(acc, amount)
              IN  ( \/ amount < Amt(500, 0)
                    \/ 100 * acc.balance - amount * (100 + acc.cash_advance_fee)
                           < 0 - 100 * acc.credit_limit )
                      => (~r.ok /\ r.acc = acc)
    /\ ( /\ last.op = "withdraw" /\ last.src # 0 /\ IsCredit(accounts[last.src])
          /\ last.result # "ok" )
       => accounts = last.pre.accounts

\* A cash advance of 500.00 or more was refused at the menu for the credit limit.
C15_Witness ==
    /\ last.op = "withdraw" /\ last.src # 0 /\ IsCredit(accounts[last.src])
    /\ last.calls # <<>> /\ \A k \in 1..Len(last.calls) : ~last.calls[k].ok
    /\ accounts[last.src] = Pre(last.src)
    /\ accounts[last.src].balance < 0
    /\ \E amount \in Amounts :
          /\ amount >= MIN_CASH_ADVANCE_AMOUNT
          /\ credit_limit_exceeded(accounts[last.src], amount)

\* The two rows of a cash advance of amount, with its fee, from balance.
CashAdvanceRows(balance, amount, fee) ==
    << [transaction |-> "Withdrawal", amount |-> Fmt2(0 - amount),
        balance |-> Fmt2(balance - amount)],
       [transaction |-> "Cash Advance Fee", amount |-> Fmt2(0 - fee),
        balance |-> Fmt2(balance - amount - fee)] >>

\* C16: a successful cash advance of amount lowers the balance by
\* amount + amount * cash_advance_fee and appends two rows in this order:
\* "Withdrawal" with -amount and the balance before the fee, then
\* "Cash Advance Fee" with -fee; so does one entered at the menu.  With balance 0,
\* limit 5000 and fee 0.03, withdraw(500) gives -515 and then withdraw(4600) fails.
C16_CashAdvanceTwoRows ==
    /\ \A i \in Indexes : IsCredit(accounts[i]) =>
          \A amount \in WithdrawalAmounts :
              LET acc == accounts[i]
                  r == CreditAccount_withdraw(acc, amount)
                  fee == MulRate(amount, acc.cash_advance_fee)
              IN  /\ r.ok =>
                        /\ r.acc.balance = acc.balance - amount - fee
                        /\ Appended(acc, r.acc) = CashAdvanceRows(acc.balance, amount, fee)
                        /\ OnlyBalanceAndLedger(acc, r.acc)
                  /\ (acc.balance = 0 /\ acc.credit_limit = Amt(5000, 0)
                          /\ amount = Amt(500, 0)) =>
                        /\ r.ok /\ r.acc.balance = 0 - Amt(515, 0)
                        /\ ~CreditAccount_withdraw(r.acc, Amt(4600, 0)).ok
    /\ (last.op = "withdraw" /\ last.result = "ok" /\ IsCredit(accounts[last.src])) =>
          Appended(Pre(last.src), accounts[last.src])
              = CashAdvanceRows(Pre(last.src).balance, last.amount,
                                MulRate(last.amount, Pre(last.src).cash_advance_fee))

\* The scenario at the menu: 500 advanced from a Credit account of balance 0 and
\* limit 5000, which now owes 515 and refuses an advance of 4600.
C16_Witness ==
    /\ last.op = "withdraw" /\ last.result = "ok" /\ IsCredit(accounts[last.src])
    /\ Pre(last.src).balance = 0 /\ Pre(last.src).credit_limit = Amt(5000, 0)
    /\ last.amount = Amt(500, 0)
    /\ accounts[last.src].balance = 0 - Amt(515, 0)
    /\ LastRow(accounts[last.src]).transaction = "Cash Advance Fee"
    /\ ~withdraw(accounts[last.src], Amt(4600, 0)).ok

\* C17: in every reachable state, after any mix of reloads and fresh creations of
\* Savings and Credit accounts, no two accounts of the collection carry the same
\* account number, whatever their variants.
C17_AccountNumbersUnique ==
    \A i, j \in Indexes : i # j => accounts[i].account_number # accounts[j].account_number

Kinds == {ACCOUNT_TYPE_SAVINGS, ACCOUNT_TYPE_CREDIT}

NumbersOfKind(accts, kind) ==
    {accts[i].account_number : i \in {j \in 1..Len(accts) : accts[j].kind = kind}}

MaxOf(S) == CHOOSE x \in S : \A y \in S : y <= x

\* C18: each variant has its own counter, Savings from 1200 and Credit from 1900.
\* A fresh creation takes the value of its variant's counter and adds one to it;
\* reloading an account of number n sets its variant's counter to
\* max(counter, n + 1); either leaves the other variant's counter alone, and no
\* other operation touches a counter.  So each counter stays above every number
\* held by an account of its variant, and so does every number generated later.
C18_CounterPerVariant ==
    /\ pc = "boot" => (next_number[ACCOUNT_TYPE_SAVINGS] = 1200
                          /\ next_number[ACCOUNT_TYPE_CREDIT] = 1900)
    /\ \A i \in Indexes : accounts[i].account_number < next_number[accounts[i].kind]
    /\ \A kind \in Kinds :
          \A n \in (next_number[kind] - 2)..(next_number[kind] + 1) :
              _update_next_account_number(next_number, kind, n)
                  = [next_number EXCEPT ![kind] = MaxOf({@, n + 1})]
    /\ last.op = "load" =>
          \A kind \in Kinds :
              next_number[kind]
                  = MaxOf({last.pre.next_number[kind]}
                             \cup {n + 1 : n \in NumbersOfKind(accounts, kind)})
    /\ (last.op = "create" /\ last.result = "ok") =>
          LET new == accounts[Len(accounts)]
          IN  /\ new.account_number = last.pre.next_number[new.kind]
              /\ next_number = [last.pre.next_number EXCEPT ![new.kind] = @ + 1]
              /\ \A n \in NumbersOfKind(last.pre.accounts, new.kind) : n < new.account_number
    /\ (last.op \notin {"none", "load"} /\ ~(last.op = "create" /\ last.result = "ok")) =>
          next_number = last.pre.next_number

\* After a reload that advanced a counter, a fresh account of that variant was
\* created next to the reloaded one.
C18_Witness ==
    /\ last.op = "create" /\ last.result = "ok"
    /\ LET new == accounts[Len(accounts)]
       IN  /\ NumbersOfKind(last.pre.accounts, new.kind) # {}
           /\ new.account_number = MaxOf(NumbersOfKind(last.pre.accounts, new.kind)) + 1
           /\ new.account_number
                  > (IF IsSavings(new) THEN SAVINGS_FIRST_NUMBER ELSE CREDIT_FIRST_NUMBER)

\* C19: a fresh creation gives the account the number its variant's counter
\* generated and appends exactly one "Account Created" row with the initial
\* balance; an account reconstructed from a row of the master file keeps the row's
\* number, has no ledger row appended, and no number is generated for it (a
\* counter moves only past the numbers loaded).
C19_FreshAndReloadedAccounts ==
    /\ (last.op = "create" /\ last.result = "ok") =>
          LET new == accounts[Len(accounts)]
          IN  /\ accounts = Append(last.pre.accounts, new)
              /\ new.account_number = last.pre.next_number[new.kind]
              /\ new.balance = last.amount
              /\ new.ledger = << [transaction |-> "Account Created",
                                  amount |-> Fmt2(last.amount),
                                  balance |-> Fmt2(last.amount)] >>
    /\ last.op = "load" =>
          /\ Len(accounts) = Len(AccountRows(master))
          /\ \A i \in Indexes :
                /\ accounts[i].kind = AccountRows(master)[i].type
                /\ accounts[i].account_number = AccountRows(master)[i].number
                /\ accounts[i].balance = ParseFmt2(AccountRows(master)[i].balance)
                /\ accounts[i].ledger = <<>>
          /\ \A kind \in Kinds :
                \/ next_number[kind] = last.pre.next_number[kind]
                \/ next_number[kind] - 1 \in NumbersOfKind(accounts, kind)
    /\ \A i \in Indexes :
          LET again == _row_to_account(_account_to_row(accounts[i]))
          IN  /\ again.account_number = accounts[i].account_number
              /\ again.ledger = <<>>

\* A fresh account, with its "Account Created" row, next to accounts reloaded
\* from the master file, which have none.
C19_Witness ==
    /\ last.op = "create" /\ last.result = "ok"
    /\ Len(accounts) > 1
    /\ \A i \in 1..(Len(accounts) - 1) :
          /\ accounts[i].ledger = <<>>
          /\ accounts[i].account_number = AccountRows(last.pre.master)[i].number
    /\ Len(accounts[Len(accounts)].ledger) = 1

\* C20: one call of perform_transaction makes at most 3 attempts and calls the
\* account's deposit or withdraw at most 3 times, all on the account found; it
\* stops at the first call that succeeds, so only its last call can have changed
\* a balance; and it saves the master data exactly when a call succeeded.
C20_BoundedRetry ==
    /\ pc = "txn" =>
          /\ txn.attempt \in 1..3
          /\ Len(last.calls) <= txn.attempt - 1
          /\ last.op = txn.transaction_type /\ last.src = txn.account
          /\ last.result = "in_progress"
    /\ (last.op \in {"deposit", "withdraw"} /\ last.result # "not_found") =>
          /\ Len(last.calls) <= 3
          /\ \A k \in 1..Len(last.calls) :
                /\ last.calls[k].method = last.op /\ last.calls[k].on = last.src
                /\ last.calls[k].ok <=> (k = Len(last.calls) /\ last.result = "ok")
          /\ \A i \in Indexes : i # last.src => accounts[i] = Pre(i)
          /\ IF last.result = "ok"
             THEN /\ last.calls # <<>>
                  /\ last.saves = 1
                  /\ master = save_master_data(accounts)
                  /\ accounts[last.src] # Pre(last.src)
             ELSE /\ last.saves = 0
                  /\ master = last.pre.master
                  /\ accounts = last.pre.accounts

\* A transaction whose first two calls failed and whose third succeeded, saved once.
C20_Witness ==
    /\ last.op \in {"deposit", "withdraw"} /\ last.result = "ok"
    /\ Len(last.calls) = 3
    /\ ~last.calls[1].ok /\ ~last.calls[2].ok /\ last.calls[3].ok
    /\ last.saves = 1

\* A transaction that gave up after three failed calls, nothing saved.
C20_Exhausted ==
    /\ last.op \in {"deposit", "withdraw"} /\ last.result = "exhausted"
    /\ Len(last.calls) = 3
    /\ master = last.pre.master

\* get_valid_input reads at most 3 raw lines: it returns the first one accepted
\* among them, and None exactly when the first 3 were refused.
InputReadsBounded ==
    \A lines \in AmountLines :
        LET g == get_valid_input(lines)
        IN  /\ g.reads \in 1..3
            /\ \A k \in 1..(g.reads - 1) : ~lines[k].parsable
            /\ IF g.result.valid
               THEN lines[g.reads].parsable /\ g.result.value = lines[g.reads].value
               ELSE g.reads = 3 /\ ~lines[3].parsable

\* An exhausted call returned without success and with every account as it was.
ExhaustedUnchanged ==
    (last.op \in {"deposit", "withdraw"} /\ last.result = "exhausted") =>
        /\ pc = "menu"
        /\ \A k \in 1..Len(last.calls) : ~last.calls[k].ok
        /\ accounts = last.pre.accounts
        /\ master = last.pre.master

\* C21: perform_transaction always terminates.  Whatever is typed, parsable or
\* not, accepted or rejected, each attempt reads at most 3 raw lines, each attempt
\* that does not end the call raises the attempt count by one, the count never
\* passes 3, a call in progress returns to the menu, and a call whose attempts all
\* failed returns without success and with the account unchanged.
C21_PerformTransactionTerminates ==
    /\ [](InputReadsBounded /\ ExhaustedUnchanged /\ (pc = "txn" => txn.attempt \in 1..3))
    /\ [][(pc = "txn" /\ pc' = "txn") => txn'.attempt = txn.attempt + 1]_vars
    /\ (pc = "txn" ~> pc = "menu")

\* A call gave up at its third attempt: two amounts were rejected and the third
\* prompt got three refused lines.
C21_Witness ==
    /\ last.op \in {"deposit", "withdraw"} /\ last.result = "exhausted"
    /\ Len(last.calls) = 2
    /\ \E lines \in AmountLines :
          ~get_valid_input(lines).result.valid /\ get_valid_input(lines).reads = 3

\* C22: end_of_month_process makes exactly one call on every account of the
\* collection, in insertion order, apply_interest on a Savings account and
\* apply_debt_interest on a Credit account, each account getting its one interest
\* step and nothing else; it saves the master data exactly once, after the pass:
\* the file holds every account as the pass left it.
C22_MonthEndOnePass ==
    last.op = "month_end" =>
        /\ Len(accounts) = Len(last.pre.accounts)
        /\ Len(last.calls) = Len(accounts)
        /\ \A i \in Indexes :
              /\ last.calls[i].on = i
              /\ last.calls[i].method
                     = (IF IsSavings(Pre(i)) THEN "apply_interest" ELSE "apply_debt_interest")
              /\ accounts[i]
                     = (IF IsSavings(Pre(i)) THEN apply_interest(Pre(i))
                        ELSE apply_debt_interest(Pre(i)))
              /\ Len(accounts[i].ledger) <= Len(Pre(i).ledger) + 1
        /\ last.saves = 1
        /\ master = save_master_data(accounts)

\* A month-end run over a Savings account and a Credit account in debt: both got
\* their interest step and the file holds both new balances.
C22_Witness ==
    /\ last.op = "month_end"
    /\ \E i, j \in Indexes :
          /\ i < j
          /\ IsSavings(accounts[i]) /\ accounts[i].balance > Pre(i).balance
          /\ IsCredit(accounts[j]) /\ accounts[j].balance < Pre(j).balance
          /\ master[i].balance = Fmt2(accounts[i].balance)
          /\ master[j].balance = Fmt2(accounts[j].balance)

\* |balance| * debt_interest_rate / 12, the rate in percent, to the nearest mill.
DebtInterest(acc) == RoundDiv((IF acc.balance < 0 THEN 0 - acc.balance ELSE acc.balance)
                                  * acc.debt_interest_rate, 1200)

\* Balances a Credit account is tried on besides its own: none owed, a small debt,
\* a debt at the limit.
DebtBalances(acc) == {acc.balance, 0, Amt(100, 0), 0 - Amt(100, 0), 0 - acc.credit_limit}

\* C23: apply_debt_interest leaves a Credit account of balance >= 0 as it was, no
\* row appended; with balance < 0 it lowers the balance by
\* |balance| * debt_interest_rate / 12 and appends exactly one
\* "Debt Interest Charge" row with the negative interest.  It does so whatever
\* the amount (under the 500 minimum of a cash advance) and wherever the balance
\* ends (an account at its limit is charged too).
C23_DebtInterest ==
    \A i \in Indexes : IsCredit(accounts[i]) =>
        \A balance \in DebtBalances(accounts[i]) :
            LET acc == [accounts[i] EXCEPT !.balance = balance]
                after == apply_debt_interest(acc)
            IN  IF balance >= 0
                THEN after = acc
                ELSE /\ after.balance = balance - DebtInterest(acc)
                     /\ Appended(acc, after)
                            = << [transaction |-> "Debt Interest Charge",
                                  amount |-> Fmt2(0 - DebtInterest(acc)),
                                  balance |-> Fmt2(balance - DebtInterest(acc))] >>
                     /\ OnlyBalanceAndLedger(acc, after)

\* A month-end run charged a Credit account in debt an interest under the 500
\* minimum of a cash advance, one that a cash advance of any amount would by now
\* be refused for the limit.
C23_Witness ==
    /\ last.op = "month_end"
    /\ \E i \in Indexes :
          /\ IsCredit(accounts[i]) /\ Pre(i).balance < 0
          /\ accounts[i].balance = Pre(i).balance - DebtInterest(Pre(i))
          /\ DebtInterest(Pre(i)) > 0 /\ DebtInterest(Pre(i)) < MIN_CASH_ADVANCE_AMOUNT
          /\ LastRow(accounts[i]).transaction = "Debt Interest Charge"
          /\ credit_limit_exceeded(Pre(i), MIN_CASH_ADVANCE_AMOUNT)

\* balance * interest_rate / 12, the rate in percent, to the nearest mill.
SavingsInterest(acc) == RoundDiv(acc.balance * acc.interest_rate, 1200)

\* Balances a Savings account is tried on besides its own: none, and an overdrawn one.
InterestBalances(acc) == {acc.balance, 0, 0 - Amt(100, 0)}

\* C24: apply_interest on a Savings account of balance > 0 deposits
\* balance * interest_rate / 12 through deposit: the balance rises by it and
\* exactly one "Deposit" row is appended; with balance <= 0 the interest computed
\* is <= 0, the deposit is refused, and the account is as it was.
C24_SavingsInterest ==
    \A i \in Indexes : IsSavings(accounts[i]) =>
        \A balance \in InterestBalances(accounts[i]) :
            LET acc == [accounts[i] EXCEPT !.balance = balance]
                after == apply_interest(acc)
            IN  IF balance > 0
                THEN /\ SavingsInterest(acc) > 0
                     /\ after = deposit(acc, SavingsInterest(acc)).acc
                     /\ after.balance = balance + SavingsInterest(acc)
                     /\ Appended(acc, after)
                            = << [transaction |-> "Deposit",
                                  amount |-> Fmt2(SavingsInterest(acc)),
                                  balance |-> Fmt2(balance + SavingsInterest(acc))] >>
                ELSE /\ SavingsInterest(acc) <= 0
                     /\ ~deposit(acc, SavingsInterest(acc)).ok
                     /\ after = acc

\* A month-end run paid a Savings account its interest with one "Deposit" row.
C24_Witness ==
    /\ last.op = "month_end"
    /\ \E i \in Indexes :
          /\ IsSavings(accounts[i]) /\ Pre(i).balance > 0
          /\ accounts[i].balance = Pre(i).balance + SavingsInterest(Pre(i))
          /\ Len(accounts[i].ledger) = Len(Pre(i).ledger) + 1
          /\ LastRow(accounts[i]).transaction = "Deposit"
          /\ ~deposit(accounts[i], 0).ok

\* B * (1 + r/12), for r in percent, to the nearest mill.
OneMonth(B, r) == B + RoundDiv(B * r, 1200)

\* B * (1 + r/12)^2 = B + 2*B*r/12 + B*(r/12)^2, each term to the nearest mill.
TwoMonths(B, r) == B + RoundDiv(2 * B * r, 1200) + RoundDiv(B * r * r, 1200 * 1200)

Near(x, y, tolerance) == x - y <= tolerance /\ y - x <= tolerance

\* C25: month-end is not idempotent.  When a month-end run follows a month-end run
\* directly, a Savings account that held a positive balance B at annual rate r
\* before the first run held B*(1+r/12) after it and holds B*(1+r/12)^2 after the
\* second, each within the rounding of the balance (1 mill per run), and the
\* second run has raised the balance again.
C25_MonthEndCompounds ==
    [][(last.op = "month_end" /\ last'.op = "month_end" /\ ops' = ops + 1) =>
          \A i \in Indexes :
              (IsSavings(accounts[i]) /\ Pre(i).balance > 0) =>
                  LET B == Pre(i).balance
                      r == Pre(i).interest_rate
                  IN  /\ Near(accounts[i].balance, OneMonth(B, r), 1)
                      /\ Near(accounts'[i].balance, TwoMonths(B, r), 2)
                      /\ accounts'[i].balance > accounts[i].balance
                      /\ accounts[i].balance > B]_vars

\* Two month-end runs in a row on the Savings account loaded with 1000.00 at 4%:
\* 1003.333 after the first, more after the second, one "Deposit" row for each.
C25_Witness ==
    /\ last.op = "month_end" /\ ops = 2
    /\ \E i \in Indexes :
          /\ IsSavings(accounts[i])
          /\ Pre(i).balance = OneMonth(Amt(1000, 0), Pre(i).interest_rate)
          /\ Len(Pre(i).ledger) = 1
          /\ Len(accounts[i].ledger) = 2
          /\ Near(accounts[i].balance, TwoMonths(Amt(1000, 0), Pre(i).interest_rate), 2)
          /\ accounts[i].balance > Pre(i).balance

\* C26: no account operation lets a fault escape into perform_transaction,
\* transfer_money or end_of_month_process, a failing ledger append included: no
\* handler is left by an exception, and an operation that did not succeed has left
\* every balance as it was.
C26_NoFaultEscapes ==
    /\ pc # "raised"
    /\ last.result \notin {"none", "ok", "in_progress"} =>
          \A i \in 1..Len(last.pre.accounts) : accounts[i].balance = Pre(i).balance

\* C27: when the write of the master file fails inside save_master_data, the save
\* returns failure (and a save that returned success has written every account),
\* the operation that called it returns to the menu as a success, and the accounts
\* in memory are as the operation left them on a sound storage.
C27_SaveFailureContained ==
    /\ (last.saves > 0 /\ last.save_result = "ok") => master = save_master_data(accounts)
    /\ last.save_result = "failed" =>
          /\ pc = "menu"
          /\ last.result = "ok" /\ last.saves = 1
          /\ master \in {last.pre.master, <<>>}
          /\ next_number
                 = (IF last.op = "create"
                    THEN [last.pre.next_number EXCEPT
                            ![accounts[Len(accounts)].kind] = @ + 1]
                    ELSE last.pre.next_number)
          /\ accounts
                 = (IF last.op = "create"
                    THEN Append(last.pre.accounts,
                                new_account(accounts[Len(accounts)].kind,
                                            accounts[Len(accounts)].holder_name,
                                            last.amount, last.pre.next_number).account)
                    ELSE IF last.op = "deposit"
                    THEN [last.pre.accounts EXCEPT ![last.src] = deposit(@, last.amount).acc]
                    ELSE IF last.op = "withdraw"
                    THEN [last.pre.accounts EXCEPT ![last.src] = withdraw(@, last.amount).acc]
                    ELSE IF last.op = "transfer"
                    THEN transfer_execute(last.pre.accounts, last.src, last.dst,
                                          last.amount).accounts
                    ELSE end_of_month_process(last.pre.accounts).accounts)

\* A transfer changed two balances, its save failed, and the file still holds the
\* balances from before it.
C27_Witness ==
    /\ TransferDone("ok") /\ last.save_result = "failed"
    /\ pc = "menu"
    /\ master # <<>> /\ master = last.pre.master
    /\ master[last.src].balance # Fmt2(accounts[last.src].balance)
    /\ accounts[last.dst].balance = Pre(last.dst).balance + last.amount

\* C28: on a sound storage, every successful mutating operation (creation,
\* deposit, withdrawal, transfer, month-end run) makes one full rewrite of the
\* master file before it returns to the menu; so whenever the menu is idle the
\* file lists every account of the collection, in order, with its number and its
\* current balance to 2 decimals.
C28_SnapshotFollowsMemory ==
    /\ (last.op \in {"create", "deposit", "withdraw", "transfer", "month_end"}
           /\ last.result = "ok") =>
          /\ pc = "menu"
          /\ last.saves = 1 /\ last.save_result = "ok"
          /\ master = save_master_data(accounts)
    /\ pc = "menu" =>
          /\ Len(AccountRows(master)) = Len(accounts)
          /\ \A i \in Indexes :
                /\ AccountRows(master)[i].type = accounts[i].kind
                /\ AccountRows(master)[i].number = accounts[i].account_number
                /\ AccountRows(master)[i].balance = Fmt2(accounts[i].balance)

\* The menu is idle after a successful operation on a collection that has grown
\* since it was loaded, and the file holds a balance the file did not hold before.
C28_Witness ==
    /\ pc = "menu" /\ last.result = "ok" /\ last.saves = 1
    /\ last.op \in {"deposit", "withdraw", "transfer", "month_end"}
    /\ Len(master) = Len(accounts)
    /\ \E i \in Indexes :
          /\ accounts[i].ledger # <<>>
          /\ accounts[i].ledger[1].transaction = "Account Created"
    /\ \E i \in Indexes :
          /\ master[i].balance = Fmt2(accounts[i].balance)
          /\ master[i].balance # last.pre.master[i].balance

IsPrefix(earlier, later) ==
    Len(earlier) <= Len(later) /\ SubSeq(later, 1, Len(earlier)) = earlier

\* C29: an account's ledger is append-only.  Every step of the program, whether it
\* is a successful operation, a failed one, a transfer, a month-end run or the
\* reload, keeps every account in its place in the collection and leaves the
\* ledger it had as a prefix of the ledger it has: no row is changed or removed.
\* (Holding for every step, it holds between any earlier and any later point.)
C29_LedgerAppendOnly ==
    [][\A i \in Indexes :
          /\ i <= Len(accounts')
          /\ accounts'[i].account_number = accounts[i].account_number
          /\ accounts'[i].kind = accounts[i].kind
          /\ IsPrefix(accounts[i].ledger, accounts'[i].ledger)]_vars

\* An operation has appended rows to a ledger that already held rows of two
\* earlier kinds, which are still there.
C29_Witness ==
    \E i \in Indexes :
        /\ i <= Len(last.pre.accounts)
        /\ Len(Pre(i).ledger) >= 2
        /\ Len(accounts[i].ledger) > Len(Pre(i).ledger)
        /\ IsPrefix(Pre(i).ledger, accounts[i].ledger)
        /\ accounts[i].ledger[1].transaction # LastRow(accounts[i]).transaction

\* C30: in perform_transaction, after every failed attempt that is not the last,
\* whether the input was unparsable or the operation was rejected, the current
\* balance is displayed once more before the next amount is requested; after the
\* last failed attempt it is not displayed.
C30_BalanceDisplayedAgain ==
    [][/\ (pc = "txn" /\ pc' = "txn") => last'.displays = last.displays + 1
       /\ (pc = "txn" /\ pc' = "menu" /\ last'.result = "exhausted")
             => last'.displays = last.displays]_vars

\* The two preconditions SavingsAccount.withdraw checks itself.
savings_preconditions(acc, amount, skip_fee) ==
    /\ amount >= Amt(50, 0)
    /\ acc.balance - amount - (IF skip_fee THEN 0 ELSE Amt(5, 0)) >= acc.min_balance

\* C31: SavingsAccount.withdraw(amount, skip_fee) succeeds whenever amount >= 50.00
\* and balance - amount - fee >= min_balance (fee 0 with skip_fee, else 5.00), for
\* every balance and minimum balance an account holds, reloaded ones included.
C31_SavingsWithdrawOnlyTwoRefusals ==
    \A i \in Indexes : IsSavings(accounts[i]) =>
        \A amount \in WithdrawalAmounts, skip_fee \in BOOLEAN :
            savings_preconditions(accounts[i], amount, skip_fee)
                => SavingsAccount_withdraw(accounts[i], amount, skip_fee).ok

\* C31, as the code has it: SavingsAccount.withdraw succeeds exactly when
\* amount >= 50.00, balance - amount - fee >= min_balance and amount <= balance,
\* the last being the check of BankAccount.withdraw; a refusal by that check
\* leaves the account as it was and charges no fee.  With min_balance >= 0 the
\* third condition follows from the second.
C31_SavingsWithdrawThreeRefusals ==
    /\ \A i \in Indexes : IsSavings(accounts[i]) =>
          \A amount \in WithdrawalAmounts, skip_fee \in BOOLEAN :
              LET acc == accounts[i]
                  r == SavingsAccount_withdraw(acc, amount, skip_fee)
              IN  /\ r.ok <=> ( /\ savings_preconditions(acc, amount, skip_fee)
                                /\ amount <= acc.balance )
                  /\ ~r.ok => r.acc = acc
                  /\ (acc.min_balance >= 0 /\ savings_preconditions(acc, amount, skip_fee))
                        => r.ok
    /\ ( /\ last.op = "withdraw" /\ last.result = "ok"
          /\ IsSavings(accounts[last.src]) )
       => /\ savings_preconditions(Pre(last.src), last.amount, FALSE)
          /\ last.amount <= Pre(last.src).balance

\* A transfer out of a Savings account whose minimum balance is negative was
\* refused at the source withdrawal although its amount meets both of the
\* account's own preconditions: the amount is more than the balance.
C31_Witness ==
    /\ last.op = "transfer" /\ last.result = "withdraw_failed"
    /\ IsSavings(accounts[last.src])
    /\ accounts[last.src] = Pre(last.src)
    /\ savings_preconditions(accounts[last.src], last.amount, TRUE)
    /\ last.amount > accounts[last.src].balance

\* What a transfer of amount from the Credit account at src to the account at dst
\* makes of the collection before: refused below 500.00 or past the credit limit
\* with the fee counted, else the source debited the amount and the fee in two
\* rows and the destination credited the amount in one "Deposit" row.
CreditSourceTransfer(before, after, result, src, dst, amount) ==
    LET acc == before[src]
        fee == MulRate(amount, acc.cash_advance_fee)
    IN  IF amount < Amt(500, 0) \/ acc.balance - amount - fee < 0 - acc.credit_limit
        THEN result = "withdraw_failed" /\ after = before
        ELSE /\ result = "ok"
             /\ fee * 100 = amount * acc.cash_advance_fee
             /\ fee > 0
             /\ after[src].balance = acc.balance - amount - fee
             /\ Appended(acc, after[src]) = CashAdvanceRows(acc.balance, amount, fee)
             /\ after[dst].balance = before[dst].balance + amount
             /\ Appended(before[dst], after[dst])
                    = << [transaction |-> "Deposit", amount |-> Fmt2(amount),
                          balance |-> Fmt2(before[dst].balance + amount)] >>
             /\ \A k \in 1..Len(before) : k \notin {src, dst} => after[k] = before[k]

\* C32: a transfer from a Credit source goes through the ordinary cash advance: it
\* is rejected when amount < 500.00 or balance - amount * (1 + cash_advance_fee)
\* < -credit_limit; on success the source is debited amount plus fee in two
\* ledger rows and the destination is credited exactly amount.
C32_CreditSourceTransfer ==
    /\ \A src \in Indexes, dst \in Indexes :
          (IsCredit(accounts[src]) /\ ~same_account(accounts[src], accounts[dst])) =>
              \A amount \in WithdrawalAmounts :
                  amount > 0 =>
                      LET t == transfer_execute(accounts, src, dst, amount)
                      IN  CreditSourceTransfer(accounts, t.accounts, t.result, src, dst, amount)
    /\ ( /\ last.op = "transfer" /\ last.result \in {"ok", "withdraw_failed", "deposit_failed"}
          /\ IsCredit(Pre(last.src)) )
       => CreditSourceTransfer(last.pre.accounts, accounts, last.result, last.src, last.dst,
                               last.amount)

\* A transfer out of a Credit account went through: the account paid the amount
\* and the cash-advance fee, the destination received the amount.
C32_Witness ==
    /\ TransferDone("ok")
    /\ IsCredit(accounts[last.src])
    /\ Len(Appended(Pre(last.src), accounts[last.src])) = 2
    /\ accounts[last.src].balance < Pre(last.src).balance - last.amount
    /\ accounts[last.dst].balance = Pre(last.dst).balance + last.amount

\* The account at position i of a collection loaded from rows written for accts
\* is accts[i] again, to the balance's 2 decimals, with no ledger row.
SameAccount(loaded, acc) ==
    /\ loaded.kind = acc.kind
    /\ loaded.account_number = acc.account_number
    /\ loaded.holder_name = acc.holder_name
    /\ Fmt2(loaded.balance) = Fmt2(acc.balance)
    /\ Abs(loaded.balance - acc.balance) <= 5
    /\ IsSavings(acc) => /\ loaded.interest_rate = acc.interest_rate
                         /\ loaded.min_balance = acc.min_balance
    /\ IsCredit(acc) => /\ loaded.credit_limit = acc.credit_limit
                        /\ loaded.debt_interest_rate = DEFAULT_DEBT_INTEREST_RATE
                        /\ loaded.cash_advance_fee = DEFAULT_CASH_ADVANCE_FEE
    /\ loaded.ledger = <<>>

\* A row as save_master_data writes one: six columns, numbers that parse, the
\* type of a variant.
well_formed(row) ==
    /\ row.columns = 6
    /\ row.numeric
    /\ row.type \in {ACCOUNT_TYPE_SAVINGS, ACCOUNT_TYPE_CREDIT}

\* C33: saving the collection and loading it back yields, in the same order,
\* accounts of the same variant, number, holder name, balance to 2 decimals and
\* interest_rate and min_balance (Savings) or credit_limit (Credit); a reloaded
\* Credit account has the default debt_interest_rate and cash_advance_fee; a
\* malformed or short row is skipped and the rows after it are still loaded;
\* loading appends no ledger row.
C33_SaveLoadRoundTrip ==
    /\ LET loaded == load_rows(save_master_data(accounts), <<>>, next_number).accounts
       IN  /\ Len(loaded) = Len(accounts)
           /\ \A i \in Indexes : SameAccount(loaded[i], accounts[i])
    /\ last.op = "load" =>
          LET rows == SelectSeq(last.pre.master, well_formed)
          IN  /\ pc = "menu"
              /\ Len(accounts) = Len(rows)
              /\ \A i \in Indexes :
                    /\ accounts[i].kind = rows[i].type
                    /\ accounts[i].account_number = rows[i].number
                    /\ accounts[i].holder_name = rows[i].name
                    /\ Fmt2(accounts[i].balance) = rows[i].balance
                    /\ accounts[i].ledger = <<>>
                    /\ IsSavings(accounts[i]) => accounts[i].min_balance = rows[i].minbal_fee
                    /\ IsCredit(accounts[i]) => accounts[i].credit_limit = rows[i].rate_limit

\* A collection loaded from the damaged file, its two sound rows on either side of
\* the damaged ones, after a month-end run has left a balance that two decimals
\* do not hold: saved and loaded again it comes back rounded.
C33_Witness ==
    /\ pc = "menu"
    /\ Len(accounts) >= 2
    /\ IsSavings(accounts[1]) /\ accounts[1].min_balance < 0
    /\ IsCredit(accounts[2]) /\ accounts[2].ledger = <<>>
    /\ ParseFmt2(Fmt2(accounts[1].balance)) # accounts[1].balance
    /\ master = save_master_data(accounts)

\* An account that create_account opened in this run: its ledger starts with the
\* "Account Created" row.
IsFresh(acc) == acc.ledger # <<>> /\ acc.ledger[1].transaction = "Account Created"

\* C34: a Savings account opened through create_account (initial deposit >= 500,
\* default min_balance 500) has balance >= min_balance in every reachable state,
\* whatever deposits, regular withdrawals, transfers in either direction and
\* month-end runs were made; so has every balance its ledger records.
C34_FreshSavingsKeepsMinBalance ==
    \A i \in Indexes : (IsSavings(accounts[i]) /\ IsFresh(accounts[i])) =>
        /\ accounts[i].min_balance = Amt(500, 0)
        /\ accounts[i].balance >= accounts[i].min_balance
        /\ \A k \in 1..Len(accounts[i].ledger) :
              accounts[i].ledger[k].balance >= Fmt2(accounts[i].min_balance)

\* A Savings account opened in this run has paid out a regular withdrawal or a
\* transfer and still holds its minimum balance.
C34_Witness ==
    /\ last.op \in {"withdraw", "transfer"} /\ last.result = "ok"
    /\ IsSavings(accounts[last.src]) /\ IsFresh(accounts[last.src])
    /\ accounts[last.src].balance < Pre(last.src).balance
    /\ accounts[last.src].balance >= accounts[last.src].min_balance

\* The sum of the Amount column of ledger rows, in paise.
RECURSIVE SumAmounts(_)
SumAmounts(rows) == IF rows = <<>> THEN 0 ELSE Head(rows).amount + SumAmounts(Tail(rows))

\* The account as it is, and as one and two month-end runs leave it.
MonthsAhead(acc) == {acc, month_end_account(acc), month_end_account(month_end_account(acc))}

\* The ledger adds up, to the 2 decimals it records: the balance is the sum of the
\* Amount column, and each Balance entry is the one before plus the row's Amount.
LedgerAddsUp(acc) ==
    /\ Fmt2(acc.balance) = SumAmounts(acc.ledger)
    /\ acc.ledger[1].balance = acc.ledger[1].amount
    /\ \A k \in 2..Len(acc.ledger) :
          acc.ledger[k].balance = acc.ledger[k - 1].balance + acc.ledger[k].amount

\* The ledger adds up within the rounding of its entries: the last Balance entry
\* is the balance to 2 decimals, each Balance entry is within 0.01 of the one
\* before plus the row's Amount, and the Amount column sums to the balance within
\* 0.01 per row.
LedgerAddsUpWithinRounding(acc) ==
    /\ LastRow(acc).balance = Fmt2(acc.balance)
    /\ acc.ledger[1].balance = acc.ledger[1].amount
    /\ \A k \in 2..Len(acc.ledger) :
          Near(acc.ledger[k].balance, acc.ledger[k - 1].balance + acc.ledger[k].amount, 1)
    /\ Near(SumAmounts(acc.ledger), Fmt2(acc.balance), Len(acc.ledger) - 1)

\* C35: for every account created fresh in the process, in every state between
\* operations (the state reached, and the states one and two month-end runs
\* later) the balance equals the sum of the signed amounts of all its ledger
\* rows, the "Account Created" row counting the initial balance, and each row's
\* recorded balance equals the previous row's recorded balance plus the row's
\* amount; amounts and balances are compared as the ledger records them.
C35_LedgerAddsUp ==
    \A i \in Indexes : IsFresh(accounts[i]) =>
        \A acc \in MonthsAhead(accounts[i]) : LedgerAddsUp(acc)

\* C35, as the code has it: the rows are written to 2 decimals from a balance
\* that is not rounded, so in those states a fresh account's ledger adds up only
\* within the rounding of its entries.
C35_LedgerAddsUpWithinRounding ==
    \A i \in Indexes : IsFresh(accounts[i]) =>
        \A acc \in MonthsAhead(accounts[i]) : LedgerAddsUpWithinRounding(acc)

\* A fresh Savings account that a deposit took to 1000.00: its ledger adds up now,
\* and two month-end runs later the row of 3.34 stands between the recorded
\* balances 1003.33 and 1006.68.
C35_Witness ==
    \E i \in Indexes :
        /\ IsFresh(accounts[i]) /\ IsSavings(accounts[i])
        /\ Len(accounts[i].ledger) = 2
        /\ accounts[i].balance = Amt(1000, 0)
        /\ LedgerAddsUp(accounts[i])
        /\ LET acc == month_end_account(month_end_account(accounts[i]))
           IN  /\ LastRow(acc).amount = Fmt2(Amt(3, 34))
               /\ LastRow(acc).balance = Fmt2(Amt(1006, 68))
               /\ acc.ledger[3].balance = Fmt2(Amt(1003, 33))
               /\ ~LedgerAddsUp(acc)

\* The requests create_account rejects: a type that is not 1 or 2, an empty
\* holder name, a deposit that does not parse, a deposit under 500.00 for a
\* Savings account or under 5000.00 for a Credit account.
create_rejected(i) ==
    IF ~i.type.valid THEN TRUE
    ELSE IF i.type.value \notin {1, 2} THEN TRUE
    ELSE IF i.name = "" THEN TRUE
    ELSE IF ~i.deposit.valid THEN TRUE
    ELSE IF i.type.value = 1 THEN i.deposit.value < Amt(500, 0)
    ELSE i.deposit.value < Amt(5000, 0)

\* C36: a rejected create_account request (type not 1 or 2, empty holder name,
\* unparsable deposit, deposit under 500 for Savings or 5000 for Credit) adds no
\* account, appends no ledger row, triggers no save and consumes no account
\* number: both counters are as they were.
C36_RejectedCreateChangesNothing ==
    /\ \A i \in CreateInputs :
          LET r == create_account(accounts, next_number, i.type, i.name, i.deposit)
          IN  IF create_rejected(i)
              THEN /\ r.result # "ok"
                   /\ r.accounts = accounts
                   /\ r.counters = next_number
                   /\ r.saves = 0
              ELSE r.result = "ok"
    /\ (last.op = "create" /\ last.result # "ok") =>
          /\ accounts = last.pre.accounts
          /\ next_number = last.pre.next_number
          /\ master = last.pre.master
          /\ last.saves = 0 /\ last.save_result = "none"

\* A request for an account was rejected for its deposit, in a collection that
\* holds accounts: they, the counters and the file are as before.
C36_Witness ==
    /\ last.op = "create" /\ last.result = "below_minimum"
    /\ accounts # <<>>
    /\ accounts = last.pre.accounts
    /\ next_number = last.pre.next_number

\* The accounts an operation may change: the one selected, or the source and the
\* destination of a transfer (0 stands for an account that was not found).
Touched == IF last.op = "transfer" THEN {last.src, last.dst} ELSE {last.src}

\* C37: a deposit or withdrawal through perform_transaction changes only the
\* selected account and a transfer changes only its source and destination: the
\* balance and ledger of every other account, every account's number, holder
\* name, min_balance, rates and credit_limit, the membership and order of the
\* collection, and both counters are as they were.
C37_OnlyTheAccountsNamedChange ==
    last.op \in {"deposit", "withdraw", "transfer"} =>
        /\ Len(accounts) = Len(last.pre.accounts)
        /\ next_number = last.pre.next_number
        /\ \A k \in Indexes :
              /\ k \notin Touched => accounts[k] = Pre(k)
              /\ accounts[k].kind = Pre(k).kind
              /\ accounts[k].account_number = Pre(k).account_number
              /\ accounts[k].holder_name = Pre(k).holder_name
              /\ IsSavings(accounts[k]) =>
                    /\ accounts[k].interest_rate = Pre(k).interest_rate
                    /\ accounts[k].min_balance = Pre(k).min_balance
              /\ IsCredit(accounts[k]) =>
                    /\ accounts[k].credit_limit = Pre(k).credit_limit
                    /\ accounts[k].debt_interest_rate = Pre(k).debt_interest_rate
                    /\ accounts[k].cash_advance_fee = Pre(k).cash_advance_fee

\* A transfer went through in a collection of three accounts: the third is as it
\* was, the two named have new balances.
C37_Witness ==
    /\ TransferDone("ok")
    /\ Len(accounts) = 3
    /\ accounts[last.src].balance # Pre(last.src).balance
    /\ accounts[last.dst].balance # Pre(last.dst).balance
    /\ \E k \in Indexes : k \notin {last.src, last.dst} /\ accounts[k] = Pre(k)
====
